---- MODULE Spec2Model ----
(***************************************************************************)
(* Verification model of the weather-forecast trading core.                *)
(*                                                                         *)
(*   - ContinuousMonitor (src/smart_observed_strategy.py): the poll loop   *)
(*     of monitor_buffer_period, collect_observation and the peak          *)
(*     detector detect_max_temperature.                                    *)
(*   - KalshiFetcher (src/data_fetchers.py): parse_market_range,           *)
(*     get_markets_for_date and find_market_for_forecast.                  *)
(*   - LiveTrader, EnhancedLiveTrader (src/live_trader.py,                 *)
(*     src/live_trader_enhanced.py): find_best_market, the two consensus   *)
(*     estimators and make_trading_decision.                               *)
(*   - CoolingTrendDetector (src/cooling_trend_strategy.py):               *)
(*     detect_cooling_trend.                                               *)
(*   - the requests.get calls of a poll tick and of a decision, each with  *)
(*     the timeout the source passes.                                      *)
(*   - several calls of monitor_buffer_period on one monitor, a session    *)
(*     replayed from the readings of its polls, and the bet bucket         *)
(*     computed from the detected maximum.                                 *)
(*                                                                         *)
(* The monitor's temperatures are whole degrees Fahrenheit and its         *)
(* confidences are kept in percent (0.90 is 90).  The traders' numbers are *)
(* exact fractions Rat(n, d); a confidence "base - std_dev / 3" is the     *)
(* pair Conf(base, less) of the base and the square of what is taken off.  *)
(* An Optional value is a sequence of length 0 (None) or 1.                *)
(*                                                                         *)
(* Time.  Every comparison of datetime.now() with buffer_start or          *)
(* buffer_end is an input: check_interval_seconds and the time of the call *)
(* are the caller's, so any sequence of outcomes can occur.  A timestamp   *)
(* is kept by its rank among the session's clock readings: the number of   *)
(* samples already in the window when the clock was read.  Samples of one  *)
(* poll share a rank, samples of a later poll have a greater one.          *)
(***************************************************************************)
EXTENDS Integers, Sequences, FiniteSets, TLC

\* ------------------------------------------------------------------ bounds
MaxTemp == 3        \* fetched temperatures range over 0..MaxTemp
MaxObs == 4         \* fetches succeed only while the window holds fewer samples
MaxDegrees == 12    \* subtitles name whole degrees 0..MaxDegrees
MaxBucket == 3      \* a day's markets name whole degrees 0..MaxBucket
MaxMarkets == 2     \* a day's market list holds at most MaxMarkets markets
MaxHour == 3        \* an hourly forecast covers the hours 0..MaxHour
MaxForecast == 4    \* forecast temperatures range over 0..MaxForecast
MaxPolls == 4       \* a replayed session polls at most MaxPolls times
MaxReading == 2     \* its fetches return temperatures 1..MaxReading
MaxDetected == 13   \* a detected maximum lies in -MaxDetected..MaxDetected

\* ------------------------------------------------------- program constants
MaxChecks == 12
MinSamples == 3
ConfDetected == 90
ConfUndetermined == 50
ConfTimedOut == 75
ConfForecast == 60
ConfInitial == 0
BaseAgreed == 85        \* base_confidence with priority agreement, percent
BaseOther == 70         \* base_confidence without it, percent
SingleFactor == 80      \* "base_confidence * 0.8", percent
PenaltyCap == 30        \* "min(std_dev / 3.0, 0.3)", percent
ConfSingle == 70        \* LiveTrader: "confidence = 0.7", percent
ConfCooling == 99       \* CoolingTrendOpportunity confidence, percent
LastCoolingHour == 1    \* "max_temp_hour <= 1"
FirstObservedHour == 2  \* "now.hour < 2"

None == << >>
Some(v) == << v >>

Temps == 0 .. MaxTemp
FetchOutcomes == {None} \cup {Some(t) : t \in Temps}
PredictedTemps == {1, MaxTemp + 1}

VARIABLES
    pc,                  \* position of monitor_buffer_period
    predicted_max_temp,  \* argument of monitor_buffer_period
    observations,        \* self.observations
    check_count,         \* local check_count
    detected_max,        \* local detected_max (Optional)
    detected_time,       \* local detected_time (Optional)
    confidence,          \* local confidence
    loop_exit,           \* how the while loop was left
    session              \* the MonitoringSession returned (Optional)

VARIABLES
    fetcher_pc,          \* position of the market matching run
    markets_data,        \* subtitles of the listing not yet parsed
    markets,             \* the KalshiMarket list built by get_markets_for_date
    forecast_temp,       \* argument of find_market_for_forecast (Optional)
    found                \* position of the market it returned (Optional)

monitorVars == << pc, predicted_max_temp, observations, check_count,
                  detected_max, detected_time, confidence, loop_exit, session >>

fetcherVars == << fetcher_pc, markets_data, markets, forecast_temp, found >>

VARIABLES
    trader_pc,           \* position of the LiveTrader run
    todays_markets,      \* subtitles of the list get_todays_markets returns
    estimate,            \* the value handed to find_best_market (Optional)
    best_market          \* position of the market it returned (Optional)

VARIABLES
    engine,              \* the class whose make_trading_decision runs
    check_cooling_trend, \* argument of make_trading_decision
    today,               \* datetime.now() handed to detect_cooling_trend
    now,                 \* datetime.now() read inside and after it
    hourly_data,         \* what get_hourly_forecast returns (Optional)
    observed_temp,       \* what get_observed_temperature returns (Optional)
    source_temps         \* what each forecast source returns (Optional)

VARIABLES
    cooling_opportunity, \* local cooling_opportunity (Optional)
    forecast_consulted,  \* get_today_forecast has been called
    forecasts,           \* local forecasts, the dict in insertion order
    estimated,           \* (consensus, confidence) of the estimator
    market_queries,      \* number of get_todays_markets calls of the run
    decision,            \* the TradingDecision returned (Optional)
    previous             \* what the run before this one returned

VARIABLES
    rival,               \* a second forecasts dict, for comparison
    rival_estimated      \* (consensus, confidence) of the estimator on it

envVars == << engine, check_cooling_trend, today, now, hourly_data,
              observed_temp, source_temps >>

runVars == << cooling_opportunity, forecast_consulted, forecasts, estimated,
              market_queries, decision, previous >>

rivalVars == << rival, rival_estimated >>

VARIABLES
    operation,           \* the operation whose HTTP requests are followed
    fetcher,             \* the fetcher the operation is in
    requests_left,       \* requests.get calls the fetcher has yet to finish
    in_flight,           \* the requests.get call waited on (Optional)
    got_forecast,        \* a forecast source has returned a temperature
    forecast_strategy,   \* the forecast-based strategy has been entered
    waited               \* seconds spent in calls that timed out

requestVars == << operation, fetcher, requests_left, in_flight, got_forecast,
                  forecast_strategy, waited >>

VARIABLE
    tick                 \* what the last collect_observation returned (Optional)

VARIABLES
    poll_log,            \* what the fetchers return, poll by poll
    twin_log,            \* the same for a second session
    replayed             \* the two sessions' results, empty before the runs

twinVars == << poll_log, twin_log, replayed >>

VARIABLES
    bet_bucket_low,      \* local bet_bucket_low (Optional)
    bet_bucket_high,     \* local bet_bucket_high (Optional)
    bet_decision         \* local bet_decision, a text (Optional)

betVars == << bet_bucket_low, bet_bucket_high, bet_decision >>

engineVars == << envVars, runVars, rivalVars, requestVars, tick, twinVars,
                 betVars >>

traderVars == << trader_pc, todays_markets, estimate, best_market,
                 engineVars >>

vars == << monitorVars, fetcherVars, traderVars >>

\* --------------------------------------------------------- pure functions

\* Python truthiness of an Optional[float]: None and 0.0 are both falsy.
Truthy(opt) == opt # None /\ opt[1] # 0

TemperatureObservation(ts, src, temp) ==
    [timestamp |-> ts, source |-> src, temperature |-> temp]

\* max(seq, key=lambda o: o.temperature): the first element that no later
\* element strictly exceeds.
RECURSIVE MaxFrom(_, _, _)
MaxFrom(seq, i, best) ==
    IF i > Len(seq) THEN best
    ELSE MaxFrom(seq, i + 1,
                 IF seq[i].temperature > best.temperature THEN seq[i] ELSE best)

\* the last greatest element instead of the first
RECURSIVE MaxFromLast(_, _, _)
MaxFromLast(seq, i, best) ==
    IF i > Len(seq) THEN best
    ELSE MaxFromLast(seq, i + 1,
                     IF seq[i].temperature >= best.temperature THEN seq[i]
                     ELSE best)

MaxByTemperature_last(seq) == MaxFromLast(seq, 2, seq[1])

MaxByTemperature(seq) == MaxFrom(seq, 2, seq[1])

\* seq[-3:] for a sequence of at least three elements
LastThree(seq) == SubSeq(seq, Len(seq) - 2, Len(seq))

\* every sample counts as a primary-source sample
IsNWS_any_source(o) == o.source \in {"NWS", "OpenMeteo"}

IsNWS(o) == o.source = "NWS"

\* falls back to the other source alone when that has three samples
NwsOrAll_other_source(recent) ==
    LET nws == SelectSeq(recent, IsNWS)
        other == SelectSeq(recent, LAMBDA o : ~IsNWS(o))
    IN  IF Len(nws) >= MinSamples THEN nws
        ELSE IF Len(other) >= MinSamples THEN other
        ELSE recent

NwsOrAll(recent) ==
    LET nws == SelectSeq(recent, IsNWS)
    IN  IF Len(nws) < MinSamples THEN recent ELSE nws

\* a flat reading blocks the detection
IsDeclining_strict(t) == t[3] < t[2] /\ t[2] < t[1]

IsDeclining(t) == t[3] < t[2] /\ t[2] <= t[1]

Undetermined == [max |-> None, time |-> None, conf |-> ConfUndetermined]

detect_max_temperature(recent) ==
    IF Len(recent) < MinSamples THEN Undetermined
    ELSE LET nws_obs == NwsOrAll(recent)
             last == LastThree(nws_obs)
             recent_temps == [k \in 1 .. 3 |-> last[k].temperature]
         IN  IF IsDeclining(recent_temps)
             THEN LET max_obs == MaxByTemperature(nws_obs)
                  IN  [max |-> Some(max_obs.temperature),
                       time |-> Some(max_obs.timestamp),
                       conf |-> ConfDetected]
             ELSE Undetermined

\* self.observations after collect_observation fetched nws_temp and om_temp
Appended(obs, ts, src, opt) ==
    IF Truthy(opt) THEN Append(obs, TemperatureObservation(ts, src, opt[1]))
    ELSE obs

collect_observation(obs, ts, nws_temp, om_temp) ==
    Appended(Appended(obs, ts, "NWS", nws_temp), ts, "OpenMeteo", om_temp)

\* the highest primary-source sample when there is one
Fallback_primary_only(obs, predicted, ts) ==
    LET nws == SelectSeq(obs, IsNWS)
        max_obs == MaxByTemperature(IF nws # << >> THEN nws ELSE obs)
    IN  IF obs # << >>
        THEN [max |-> Some(max_obs.temperature),
              time |-> Some(max_obs.timestamp),
              conf |-> ConfTimedOut]
        ELSE [max |-> Some(predicted), time |-> Some(ts), conf |-> ConfForecast]

\* "if self.observations: ... else: ..." under "if detected_max is None"
Fallback(obs, predicted, ts) ==
    IF obs # << >>
    THEN LET max_obs == MaxByTemperature(obs)
         IN  [max |-> Some(max_obs.temperature),
              time |-> Some(max_obs.timestamp),
              conf |-> ConfTimedOut]
    ELSE [max |-> Some(predicted), time |-> Some(ts), conf |-> ConfForecast]

\* the fallback leaves the confidence the detector returned
FinalResult_keeps_detector_confidence(dmax, dtime, conf, obs, predicted, ts) ==
    IF dmax = None
    THEN LET f == Fallback(obs, predicted, ts)
         IN  [f EXCEPT !.conf = IF conf = ConfUndetermined THEN conf ELSE @]
    ELSE [max |-> dmax, time |-> dtime, conf |-> conf]

\* an empty window is treated as a window: confidence 0.75, temperature 0
FinalResult_no_forecast_tier(dmax, dtime, conf, obs, predicted, ts) ==
    IF dmax = None
    THEN IF obs # << >> THEN Fallback(obs, predicted, ts)
         ELSE [max |-> Some(0), time |-> Some(ts), conf |-> ConfTimedOut]
    ELSE [max |-> dmax, time |-> dtime, conf |-> conf]

\* the highest sample of the window replaces a detection too
FinalResult_highest_sample(dmax, dtime, conf, obs, predicted, ts) ==
    Fallback(obs, predicted, ts)

\* "if detected_max is None:" keeps a detection and replaces anything else
FinalResult(dmax, dtime, conf, obs, predicted, ts) ==
    IF dmax = None
    THEN Fallback(obs, predicted, ts)
    ELSE [max |-> dmax, time |-> dtime, conf |-> conf]

\* ------------------------------------------------------ KalshiFetcher
\* A text is a sequence of characters, each a one-character string; "deg"
\* stands for the degree sign.  A float is a record: sign 0 with its value,
\* or sign 1 / -1 for float('inf') / float('-inf').

Fin(n) == [sign |-> 0, val |-> n]
PosInf == [sign |-> 1, val |-> 0]
NegInf == [sign |-> -1, val |-> 0]

\* a <= b on floats
Leq(a, b) ==
    \/ a.sign < b.sign
    \/ a.sign = b.sign /\ (a.sign # 0 \/ a.val <= b.val)

DigitChars == << "0", "1", "2", "3", "4", "5", "6", "7", "8", "9" >>

IsDigit(c) == \E d \in 1 .. 10 : DigitChars[d] = c       \* \d
IsSpace(c) == c \in {" ", "\t"}                          \* \s

DigitValue(c) == (CHOOSE d \in 1 .. 10 : DigitChars[d] = c) - 1

\* float(group) of a group matched by \d+
RECURSIVE ToNumber(_)
ToNumber(digits) ==
    IF digits = << >> THEN 0
    ELSE 10 * ToNumber(SubSeq(digits, 1, Len(digits) - 1))
         + DigitValue(digits[Len(digits)])

\* \d+ from position i: the position after the longest run of digits.  What
\* follows \d+ in all three patterns is the degree sign, which is no digit,
\* so only the longest run can match.
RECURSIVE DigitsEnd(_, _)
DigitsEnd(text, i) ==
    IF i <= Len(text) /\ IsDigit(text[i]) THEN DigitsEnd(text, i + 1) ELSE i

\* \s+ from position i, likewise
RECURSIVE SpacesEnd(_, _)
SpacesEnd(text, i) ==
    IF i <= Len(text) /\ IsSpace(text[i]) THEN SpacesEnd(text, i + 1) ELSE i

\* the literal lit at position i
LiteralAt(text, i, lit) ==
    /\ i + Len(lit) - 1 <= Len(text)
    /\ SubSeq(text, i, i + Len(lit) - 1) = lit

\* (\d)deg\s+: a group of one digit
DegreesAt_one_digit(text, i) ==
    LET e == i + 1
        w == SpacesEnd(text, e + 1)
    IN  IF i <= Len(text) /\ IsDigit(text[i])
           /\ LiteralAt(text, e, << "deg" >>) /\ w > e + 1
        THEN Some([group |-> SubSeq(text, i, e - 1), next |-> w])
        ELSE None

\* (\d+)deg\s+ at position i: the group and the position after the match
DegreesAt(text, i) ==
    LET e == DigitsEnd(text, i)
        w == SpacesEnd(text, e + 1)
    IN  IF e > i /\ LiteralAt(text, e, << "deg" >>) /\ w > e + 1
        THEN Some([group |-> SubSeq(text, i, e - 1), next |-> w])
        ELSE None

\* (\d+)deg\s+to\s+(\d+)deg matched at position i
RangeAt(text, i) ==
    LET d == DegreesAt(text, i)
    IN  IF d = None \/ ~LiteralAt(text, d[1].next, << "t", "o" >>) THEN None
        ELSE LET a == d[1].next + 2
                 b == SpacesEnd(text, a)
                 e == DigitsEnd(text, b)
             IN  IF b > a /\ e > b /\ LiteralAt(text, e, << "deg" >>)
                 THEN Some(<< d[1].group, SubSeq(text, b, e - 1) >>)
                 ELSE None

\* (\d+)deg\s+or\s+<word> matched at position i
ThresholdAt(text, i, word) ==
    LET d == DegreesAt(text, i)
    IN  IF d = None \/ ~LiteralAt(text, d[1].next, << "o", "r" >>) THEN None
        ELSE LET a == d[1].next + 2
                 b == SpacesEnd(text, a)
             IN  IF b > a /\ LiteralAt(text, b, word)
                 THEN Some(<< d[1].group >>)
                 ELSE None

\* re.search: the match at the leftmost position that has one
Leftmost(S) == CHOOSE i \in S : \A j \in S : i <= j

SearchRange(text) ==
    LET starts == {i \in 1 .. Len(text) : RangeAt(text, i) # None}
    IN  IF starts = {} THEN None ELSE RangeAt(text, Leftmost(starts))

SearchThreshold(text, word) ==
    LET starts == {i \in 1 .. Len(text) : ThresholdAt(text, i, word) # None}
    IN  IF starts = {} THEN None
        ELSE ThresholdAt(text, Leftmost(starts), word)

above == << "a", "b", "o", "v", "e" >>
below == << "b", "e", "l", "o", "w" >>

parse_market_range(subtitle) ==
    LET range_match == SearchRange(subtitle)
        above_match == SearchThreshold(subtitle, above)
        below_match == SearchThreshold(subtitle, below)
    IN  IF range_match # None
        THEN << Fin(ToNumber(range_match[1][1])),
                Fin(ToNumber(range_match[1][2])) >>
        ELSE IF above_match # None
        THEN << Fin(ToNumber(above_match[1][1])), PosInf >>
        ELSE IF below_match # None
        THEN << NegInf, Fin(ToNumber(below_match[1][1])) >>
        ELSE << Fin(0), Fin(0) >>

KalshiMarket(subtitle, temp_range) ==
    [subtitle |-> subtitle, temp_range |-> temp_range]

\* "if low <= forecast_temp <= high"
InRange(market, temp) ==
    /\ Leq(market.temp_range[1], Fin(temp))
    /\ Leq(Fin(temp), market.temp_range[2])

\* the position of the market the for loop returns, None after the loop
find_market_for_forecast(ms, temp) ==
    LET hits == {k \in 1 .. Len(ms) : InRange(ms[k], temp)}
    IN  IF hits = {} THEN None ELSE Some(Leftmost(hits))

\* ------------------------------------------------- market listing inputs

\* str(n) for n >= 0
RECURSIVE Decimal(_)
Decimal(n) ==
    IF n < 10 THEN << DigitChars[n + 1] >>
    ELSE Decimal(n \div 10) \o << DigitChars[(n % 10) + 1] >>

Degrees == 0 .. MaxDegrees

\* "X deg to Y deg", "X deg or above", "X deg or below"
RangeText(x, y) ==
    Decimal(x) \o << "deg", " ", "t", "o", " " >> \o Decimal(y) \o << "deg" >>
AboveText(x) == Decimal(x) \o << "deg", " ", "o", "r", " " >> \o above
BelowText(x) == Decimal(x) \o << "deg", " ", "o", "r", " " >> \o below

RecognizedTexts ==
    {RangeText(x, y) : x \in Degrees, y \in Degrees}
        \cup {AboveText(x) : x \in Degrees}
        \cup {BelowText(x) : x \in Degrees}

garbage == << "g", "a", "r", "b", "a", "g", "e" >>

\* texts of none of the three forms: no form at all, a degree sign or the
\* blanks missing, the words in another order, and a form with text before
\* it or a fraction in it
OtherTexts ==
    {garbage, << >>}
        \cup {Decimal(x) \o << " ", "t", "o", " " >> \o Decimal(x + 1)
                : x \in Degrees}
        \cup {Decimal(x) \o << "deg", "t", "o" >> \o Decimal(x + 1) \o << "deg" >>
                : x \in Degrees}
        \cup {above \o << " " >> \o Decimal(x) \o << "deg" >> : x \in Degrees}
        \cup {<< "-" >> \o RangeText(x, x + 1) : x \in Degrees}
        \cup {Decimal(x) \o << ".", "5", "deg", " ", "o", "r", " " >> \o below
                : x \in Degrees}

Subtitles == RecognizedTexts \cup OtherTexts

\* forecast temperatures offered to the matcher
MatchTemps == 0 .. MaxDegrees + 1

\* ------------------------------------------------------------ LiveTrader

\* A float that is a quotient of whole numbers: num / den with den > 0
Rat(n, d) == [num |-> n, den |-> d]
Whole(n) == Rat(n, 1)
RatLeq(a, b) == a.num * b.den <= b.num * a.den
RatLess(a, b) == a.num * b.den < b.num * a.den

\* float(match.group(k))
GroupValue(group) == Whole(ToNumber(group))

\* The body of the loop of find_best_market: the subtitle is searched for
\* the three forms in turn and the market is returned on the first test
\* that holds.
MarketHit(subtitle, temp) ==
    LET range_match == SearchRange(subtitle)
        above_match == SearchThreshold(subtitle, above)
        below_match == SearchThreshold(subtitle, below)
    IN  \/ /\ range_match # None
           /\ RatLeq(GroupValue(range_match[1][1]), temp)
           /\ RatLeq(temp, GroupValue(range_match[1][2]))
        \/ /\ above_match # None
           /\ RatLeq(GroupValue(above_match[1][1]), temp)
        \/ /\ below_match # None
           /\ RatLeq(temp, GroupValue(below_match[1][1]))

\* the market of the greatest position that passes a test
find_best_market_last(ms, temp) ==
    LET hits == {k \in 1 .. Len(ms) : MarketHit(ms[k], temp)}
    IN  IF hits = {} THEN None
        ELSE Some(CHOOSE k \in hits : \A j \in hits : j <= k)

\* the position of the market the for loop returns, None after the loop
find_best_market(ms, temp) ==
    LET hits == {k \in 1 .. Len(ms) : MarketHit(ms[k], temp)}
    IN  IF hits = {} THEN None ELSE Some(Leftmost(hits))

\* ------------------------------------------------- consensus estimators

RECURSIVE Gcd(_, _)
Gcd(a, b) == IF b = 0 THEN a ELSE Gcd(b, a % b)

Magnitude(n) == IF n < 0 THEN -n ELSE n

\* the quotient n / d, d > 0, in lowest terms
Quotient(n, d) ==
    LET g == Gcd(Magnitude(n), d)
    IN  Rat(n \div g, d \div g)

RatAdd(a, b) == Quotient(a.num * b.den + b.num * a.den, a.den * b.den)
RatSub(a, b) == Quotient(a.num * b.den - b.num * a.den, a.den * b.den)
RatMul(a, b) == Quotient(a.num * b.num, a.den * b.den)
\* a / b for b > 0
RatDiv(a, b) == Quotient(a.num * b.den, a.den * b.num)
RatAbs(a) == Rat(Magnitude(a.num), a.den)
RatMin(a, b) == IF RatLeq(a, b) THEN a ELSE b
Square(a) == RatMul(a, a)
Percent(n) == Quotient(n, 100)

\* A confidence is kept as the pair (base, less) that stands for
\* base - sqrt(less): the penalty is a square root, kept by its square.
Conf(base, less) == [base |-> base, less |-> less]

\* max(0.0, base - penalty), the penalty given by its square
ConfMinus(base, penalty_sq) == Conf(base, RatMin(penalty_sq, Square(base)))

\* one entry of the forecasts dict; the dict is kept in insertion order
Forecast(source, temp) == [source |-> source, temp |-> temp]

\* the weights dict of get_weighted_consensus
weights ==
    [MSN |-> Rat(2, 1), NWS |-> Rat(2, 1), OpenMeteo |-> Rat(3, 2),
     OpenWeatherMap |-> Rat(1, 1), WeatherAPI |-> Rat(1, 1),
     Foreca |-> Rat(1, 1), WeatherChannel |-> Rat(1, 1)]

\* weights.get(source, 1.0) with every source at the default
Weight_default_only(source) == Rat(1, 1)

\* weights.get(source, 1.0)
Weight(source) ==
    IF source \in DOMAIN weights THEN weights[source] ELSE Rat(1, 1)

\* the two accumulators after the first i entries of the for loop
RECURSIVE weighted_sum(_, _)
weighted_sum(fs, i) ==
    IF i = 0 THEN Whole(0)
    ELSE RatAdd(weighted_sum(fs, i - 1),
                RatMul(fs[i].temp, Weight(fs[i].source)))

RECURSIVE total_weight(_, _)
total_weight(fs, i) ==
    IF i = 0 THEN Whole(0)
    ELSE RatAdd(total_weight(fs, i - 1), Weight(fs[i].source))

\* sum((t - consensus) ** 2 for t in temps) over the first i entries
RECURSIVE SquaredDeviations(_, _, _)
SquaredDeviations(fs, consensus, i) ==
    IF i = 0 THEN Whole(0)
    ELSE RatAdd(SquaredDeviations(fs, consensus, i - 1),
                Square(RatSub(fs[i].temp, consensus)))

\* "variance = sum(...) / len(temps)": std_dev is its square root
Variance(fs, consensus) ==
    RatDiv(SquaredDeviations(fs, consensus, Len(fs)),
           Whole(Len(fs)))

priority_sources == {"NWS", "MSN"}

\* the loop over priority_sources: one of them is in the dict and less
\* than 1.0 away from the consensus
priority_agreement(fs, consensus) ==
    \E i \in 1 .. Len(fs) :
        /\ fs[i].source \in priority_sources
        /\ RatLess(RatAbs(RatSub(fs[i].temp, consensus)), Whole(1))

\* the base without the priority test
base_confidence_agreed(fs, consensus) == Percent(BaseAgreed)

base_confidence(fs, consensus) ==
    IF priority_agreement(fs, consensus)
    THEN Percent(BaseAgreed) ELSE Percent(BaseOther)

\* confidence_penalty = min(std_dev / 3.0, 0.3), by its square
confidence_penalty_uncapped(variance) == RatDiv(variance, Whole(9))

confidence_penalty(variance) ==
    RatMin(RatDiv(variance, Whole(9)), Square(Percent(PenaltyCap)))

\* the single-source confidence in place of 0.0
NoEstimate_baseline ==
    [consensus |-> None, confidence |-> Conf(Percent(ConfSingle), Whole(0))]

\* "if not forecasts: return None, 0.0"
NoEstimate == [consensus |-> None, confidence |-> Conf(Whole(0), Whole(0))]

\* EnhancedLiveTrader.get_weighted_consensus
get_weighted_consensus(fs) ==
    IF fs = << >>
    THEN NoEstimate
    ELSE LET n == Len(fs)
             total == total_weight(fs, n)
             consensus == IF RatLess(Whole(0), total)
                          THEN RatDiv(weighted_sum(fs, n), total)
                          ELSE Whole(0)
             base == base_confidence(fs, consensus)
         IN  [consensus |-> Some(consensus),
              confidence |->
                  IF n > 1
                  THEN ConfMinus(base,
                           confidence_penalty(Variance(fs, consensus)))
                  ELSE Conf(RatMul(base, Percent(SingleFactor)), Whole(0))]

\* sum(temps) over the first i entries
RECURSIVE SumTemps(_, _)
SumTemps(fs, i) ==
    IF i = 0 THEN Whole(0)
    ELSE RatAdd(SumTemps(fs, i - 1), fs[i].temp)

\* LiveTrader.get_consensus_forecast
get_consensus_forecast(fs) ==
    IF fs = << >>
    THEN NoEstimate
    ELSE LET n == Len(fs)
             consensus == RatDiv(SumTemps(fs, n), Whole(n))
         IN  [consensus |-> Some(consensus),
              confidence |->
                  IF n > 1
                  THEN ConfMinus(Whole(1),
                           RatDiv(Variance(fs, consensus), Whole(36)))
                  ELSE Conf(Percent(ConfSingle), Whole(0))]

\* -------------------------------------------------- CoolingTrendDetector

\* day_hours[day_temps.index(max(day_temps))]: the hours of the day are
\* listed from hour 0, so hour h is at position h + 1
MaxTempHour(day_temps) ==
    LET places == 1 .. Len(day_temps)
        at_max == {i \in places : \A j \in places : day_temps[j] <= day_temps[i]}
    IN  Leftmost(at_max) - 1

is_cooling_day_any_hour(max_temp_hour) == max_temp_hour <= max_temp_hour

\* "is_cooling_day = max_temp_hour <= 1"
is_cooling_day(max_temp_hour) == max_temp_hour <= LastCoolingHour

\* "now.date() == target_date.date() and now.hour < 2"
StillEarly(target_date, clock) ==
    clock.day = target_date.day /\ clock.hour < FirstObservedHour

\* an opportunity that carries the base confidence of the forecast strategy
CoolingTrendOpportunity_base_confidence(observed, max_temp_hour) ==
    [observed_temp |-> observed,
     max_temp_hour |-> max_temp_hour,
     confidence |-> Conf(Percent(BaseAgreed), Whole(0)),
     is_cooling_day |-> TRUE]

CoolingTrendOpportunity(observed, max_temp_hour) ==
    [observed_temp |-> observed,
     max_temp_hour |-> max_temp_hour,
     confidence |-> Conf(Percent(ConfCooling), Whole(0)),
     is_cooling_day |-> TRUE]

\* CoolingTrendDetector.detect_cooling_trend; hourly is what
\* get_hourly_forecast returns cut down to the target date, observed what
\* get_observed_temperature returns
detect_cooling_trend(target_date, clock, hourly, observed) ==
    IF hourly = None THEN None
    ELSE IF hourly[1] = << >> THEN None
    ELSE LET max_temp_hour == MaxTempHour(hourly[1])
         IN  IF ~is_cooling_day(max_temp_hour) THEN None
             ELSE IF StillEarly(target_date, clock) THEN None
             ELSE IF observed = None THEN None
             ELSE Some(CoolingTrendOpportunity(observed[1], max_temp_hour))

\* ------------------------------------------------------ decision engine

\* "if temp:" on what a forecast source returned
TruthyTemp(opt) == opt # None /\ opt[1].num # 0

\* "if temp: forecasts[source] = temp"
Entry(source, opt) ==
    IF TruthyTemp(opt) THEN << Forecast(source, opt[1]) >> ELSE << >>

\* LiveTrader.get_today_forecast without an OpenWeatherMap key
get_today_forecast(temps) ==
    Entry("OpenMeteo", temps.OpenMeteo) \o Entry("NWS", temps.NWS)

\* EnhancedLiveTrader.get_today_forecast with its default arguments
get_today_forecast_enhanced(temps) ==
    Entry("OpenMeteo", temps.OpenMeteo) \o Entry("NWS", temps.NWS)
        \o Entry("MSN", temps.MSN)

TradingDecision(date, temp, source, ticker, subtitle, conf) ==
    [date |-> date, forecast_temp |-> temp, source |-> source,
     market_ticker |-> ticker, market_subtitle |-> subtitle,
     confidence |-> conf]

\* a decision on the first market of the list when none was returned
DecisionFor_guess(date, temp, source, conf, ms, best) ==
    IF best = None
    THEN Some(TradingDecision(date, temp, source, 1, ms[1], conf))
    ELSE Some(TradingDecision(date, temp, source, best[1], ms[best[1]], conf))

\* the decision built from the market find_best_market returned; the
\* ticker of a market is its position in the list
DecisionFor(date, temp, source, conf, ms, best) ==
    IF best = None THEN None
    ELSE Some(TradingDecision(date, temp, source, best[1], ms[best[1]], conf))

\* -------------------------------------------------- market list inputs

Buckets == 0 .. MaxBucket

\* the subtitles of a day's event: neighbouring two-degree ranges that
\* share their boundaries, the open-ended markets, and one text of no form
ListedTexts ==
    {RangeText(x, x + 1) : x \in 0 .. MaxBucket - 1}
        \cup {AboveText(x) : x \in Buckets}
        \cup {BelowText(x) : x \in Buckets}
        \cup {garbage}

\* ordered lists of one to MaxMarkets markets
Listings == UNION {[1 .. n -> ListedTexts] : n \in 1 .. MaxMarkets}

\* values offered to find_best_market: whole and half degrees
MatchValues == {Rat(n, 2) : n \in 0 .. 2 * (MaxBucket + 1)}

\* ------------------------------------------------------------------ state

\* ContinuousMonitor.__init__, before monitor_buffer_period is called
MonitorInit ==
    /\ pc = "Idle"
    /\ observations = << >>
    /\ check_count = 0
    /\ detected_max = None
    /\ detected_time = None
    /\ confidence = ConfInitial
    /\ loop_exit = "none"
    /\ session = None

\* no market listing fetched
FetcherIdle ==
    /\ fetcher_pc = "Idle"
    /\ markets_data = << >>
    /\ markets = << >>
    /\ forecast_temp = None
    /\ found = None

\* no LiveTrader run started
\* a time: the day counted from the day of the call, and the hour
Time(day, hour) == [day |-> day, hour |-> hour]

\* the inputs of a decision run, when none is made
EnvIdle ==
    /\ engine = "none"
    /\ check_cooling_trend = FALSE
    /\ today = Time(0, 0)
    /\ now = Time(0, 0)
    /\ hourly_data = None
    /\ observed_temp = None
    /\ source_temps = [OpenMeteo |-> None, NWS |-> None, MSN |-> None]

\* the locals of make_trading_decision when it is entered
RunStart ==
    /\ cooling_opportunity = None
    /\ forecast_consulted = FALSE
    /\ forecasts = << >>
    /\ estimated = None
    /\ market_queries = 0
    /\ decision = None

RivalIdle ==
    /\ rival = << >>
    /\ rival_estimated = None

\* "Determine bet" has not been reached
BetIdle ==
    /\ bet_bucket_low = None
    /\ bet_bucket_high = None
    /\ bet_decision = None

\* no session is replayed
TwinIdle ==
    /\ poll_log = << >>
    /\ twin_log = << >>
    /\ replayed = << >>

\* no operation is followed
RequestIdle ==
    /\ operation = "none"
    /\ fetcher = "none"
    /\ requests_left = 0
    /\ in_flight = None
    /\ got_forecast = FALSE
    /\ forecast_strategy = FALSE
    /\ waited = 0

EngineIdle ==
    /\ EnvIdle
    /\ RunStart
    /\ previous = None
    /\ RivalIdle
    /\ RequestIdle
    /\ tick = None
    /\ TwinIdle
    /\ BetIdle

TraderIdle ==
    /\ trader_pc = "Idle"
    /\ todays_markets = << >>
    /\ estimate = None
    /\ best_market = None
    /\ EngineIdle

Init ==
    /\ MonitorInit
    /\ predicted_max_temp \in PredictedTemps
    /\ FetcherIdle
    /\ TraderIdle

\* monitor_buffer_period up to the while loop: before the buffer it returns
\* None without polling.
StartSession ==
    /\ pc = "Idle"
    /\ \E before_buffer \in BOOLEAN :       \* datetime.now() < buffer_start
         IF before_buffer
         THEN pc' = "WaitingForWindow"
         ELSE pc' = "Monitoring"
    /\ detected_max' = None
    /\ detected_time' = None
    /\ confidence' = ConfInitial
    /\ check_count' = 0
    /\ UNCHANGED << predicted_max_temp, observations, loop_exit, session >>
    /\ UNCHANGED << fetcherVars, traderVars >>

\* The loop test reads a clock that is not before buffer_end.
WindowEnd ==
    /\ pc = "Monitoring"
    /\ pc' = "TimedOut"
    /\ loop_exit' = "window_end"
    /\ UNCHANGED << predicted_max_temp, observations, check_count,
                    detected_max, detected_time, confidence, session >>
    /\ UNCHANGED << fetcherVars, traderVars >>

\* A fetch can deliver a sample only while the window is below MaxObs.
Fetchable(obs) == IF Len(obs) < MaxObs THEN FetchOutcomes ELSE {None}

\* The rank of the clock reading taken now
Timestamp(obs) == Len(obs)

BudgetSpent_off_by_one(n) == n > MaxChecks

\* "if check_count >= 12: break"
BudgetSpent(n) == n >= MaxChecks

\* "if len(self.observations) >= 3:" guards the detector call; without the
\* call the three locals keep their values.
Detection(obs, dmax, dtime, conf) ==
    IF Len(obs) >= MinSamples
    THEN detect_max_temperature(obs)
    ELSE [max |-> dmax, time |-> dtime, conf |-> conf]

\* One iteration of the while loop, entered on a clock before buffer_end.
Poll ==
    /\ pc = "Monitoring"
    /\ \E nws_temp \in Fetchable(observations) :
       \E om_temp \in Fetchable(Appended(observations, 0, "NWS", nws_temp)) :
         LET obs == collect_observation(observations, Timestamp(observations),
                                        nws_temp, om_temp)
             det == Detection(obs, detected_max, detected_time, confidence)
         IN  /\ check_count' = check_count + 1
             /\ observations' = obs
             /\ detected_max' = det.max
             /\ detected_time' = det.time
             /\ confidence' = det.conf
             /\ IF det.max # None
                THEN /\ pc' = "Detected"
                     /\ loop_exit' = "break_detected"
                ELSE IF BudgetSpent(check_count + 1)
                     THEN pc' = "TimedOut" /\ loop_exit' = "break_budget"
                     ELSE pc' = "Monitoring" /\ loop_exit' = loop_exit
    /\ UNCHANGED << predicted_max_temp, session >>
    /\ UNCHANGED << fetcherVars, traderVars >>

\* Lines 320-368: fallback, session record, return.
Finalize ==
    /\ pc \in {"Detected", "TimedOut"}
    /\ LET res == FinalResult(detected_max, detected_time, confidence,
                              observations, predicted_max_temp,
                              Timestamp(observations))
       IN  /\ detected_max' = res.max
           /\ detected_time' = res.time
           /\ confidence' = res.conf
           /\ session' = Some([predicted_max_temp |-> predicted_max_temp,
                               observations |-> observations,
                               detected_max_temp |-> res.max[1],
                               detected_max_time |-> res.time[1],
                               confidence |-> res.conf])
    /\ pc' = "Closed"
    /\ UNCHANGED << predicted_max_temp, observations, check_count, loop_exit >>
    /\ UNCHANGED << fetcherVars, traderVars >>

Next ==
    \/ StartSession
    \/ WindowEnd
    \/ Poll
    \/ Finalize

Spec == Init /\ [][Next]_vars

\* A KeyboardInterrupt or SystemExit delivered while monitor_buffer_period
\* runs.  Neither is an Exception, so the fetchers' "except Exception" lets
\* it through, and nothing around the poll loop or the fallback catches it:
\* the call ends by the exception and no MonitoringSession is built or saved.
Interrupt ==
    /\ pc \in {"Monitoring", "Detected", "TimedOut"}
    /\ pc' = "Interrupted"
    /\ UNCHANGED << predicted_max_temp, observations, check_count,
                    detected_max, detected_time, confidence, loop_exit,
                    session >>
    /\ UNCHANGED << fetcherVars, traderVars >>

NextCancel ==
    \/ Next
    \/ Interrupt

\* The monitor when the caller may terminate the session.
SpecCancel == Init /\ [][NextCancel]_vars

\* every call starts on an empty list
MonitorAgain_resets_window ==
    /\ pc \in {"Closed", "WaitingForWindow"}
    /\ predicted_max_temp' \in PredictedTemps
    /\ \E before_buffer \in BOOLEAN :
         IF before_buffer
         THEN pc' = "WaitingForWindow"
         ELSE pc' = "Monitoring"
    /\ detected_max' = None
    /\ detected_time' = None
    /\ confidence' = ConfInitial
    /\ check_count' = 0
    /\ loop_exit' = "none"
    /\ observations' = << >>
    /\ UNCHANGED session
    /\ UNCHANGED << fetcherVars, traderVars >>

\* monitor_buffer_period called again on the same ContinuousMonitor, after
\* a call that returned a session or returned None before the buffer.  The
\* locals are fresh; self.observations is assigned in __init__ only, so the
\* call finds the list as the earlier calls left it.
MonitorAgain ==
    /\ pc \in {"Closed", "WaitingForWindow"}
    /\ predicted_max_temp' \in PredictedTemps
    /\ \E before_buffer \in BOOLEAN :       \* datetime.now() < buffer_start
         IF before_buffer
         THEN pc' = "WaitingForWindow"
         ELSE pc' = "Monitoring"
    /\ detected_max' = None
    /\ detected_time' = None
    /\ confidence' = ConfInitial
    /\ check_count' = 0
    /\ loop_exit' = "none"
    /\ UNCHANGED << observations, session >>
    /\ UNCHANGED << fetcherVars, traderVars >>

NextSessions ==
    \/ Next
    \/ MonitorAgain

\* Any number of calls on one ContinuousMonitor.
SpecSessions == Init /\ [][NextSessions]_vars

\* One iteration of the while loop, with the dict collect_observation
\* returned kept: 'nws' and 'openmeteo' hold what the two fetchers returned,
\* None for a fetch that raised or found no data.
Tick ==
    /\ pc = "Monitoring"
    /\ \E nws_temp \in Fetchable(observations) :
       \E om_temp \in Fetchable(Appended(observations, 0, "NWS", nws_temp)) :
         LET obs == collect_observation(observations, Timestamp(observations),
                                        nws_temp, om_temp)
             det == Detection(obs, detected_max, detected_time, confidence)
         IN  /\ tick' = Some([nws |-> nws_temp, openmeteo |-> om_temp])
             /\ check_count' = check_count + 1
             /\ observations' = obs
             /\ detected_max' = det.max
             /\ detected_time' = det.time
             /\ confidence' = det.conf
             /\ IF det.max # None
                THEN /\ pc' = "Detected"
                     /\ loop_exit' = "break_detected"
                ELSE IF BudgetSpent(check_count + 1)
                     THEN pc' = "TimedOut" /\ loop_exit' = "break_budget"
                     ELSE pc' = "Monitoring" /\ loop_exit' = loop_exit
    /\ UNCHANGED << predicted_max_temp, session >>
    /\ UNCHANGED << fetcherVars, trader_pc, todays_markets, estimate,
                    best_market, envVars, runVars, rivalVars, requestVars,
                    twinVars, betVars >>

NextTick ==
    \/ StartSession
    \/ WindowEnd
    \/ Tick
    \/ Finalize

\* One session, each poll keeping what its fetches returned.
SpecTick == Init /\ [][NextTick]_vars

\* The while loop from poll i on, the fetchers returning what log holds and
\* the clock reaching buffer_end after the last entry of log; then lines
\* 320-357.  polls is the number of polls made.
RECURSIVE PollLoop(_, _, _, _, _, _, _)
PollLoop(log, i, obs, dmax, dtime, conf, predicted) ==
    IF i > Len(log)
    THEN LET res == FinalResult(dmax, dtime, conf, obs, predicted,
                                Timestamp(obs))
         IN  [polls |-> i - 1, detected |-> FALSE, observations |-> obs,
              detected_max_temp |-> res.max[1], confidence |-> res.conf]
    ELSE LET polled == collect_observation(obs, Timestamp(obs), log[i].nws,
                                           log[i].openmeteo)
             det == Detection(polled, dmax, dtime, conf)
             res == FinalResult(det.max, det.time, det.conf, polled,
                                predicted, Timestamp(polled))
         IN  IF det.max # None \/ BudgetSpent(i)
             THEN [polls |-> i, detected |-> det.max # None,
                   observations |-> polled,
                   detected_max_temp |-> res.max[1],
                   confidence |-> res.conf]
             ELSE PollLoop(log, i + 1, polled, det.max, det.time, det.conf,
                           predicted)

\* monitor_buffer_period on a fresh monitor, called inside the buffer
monitor_buffer_period(log, predicted) ==
    PollLoop(log, 1, << >>, None, None, ConfInitial, predicted)

Readings == {None} \cup {Some(t) : t \in 1 .. MaxReading}

PollResults == [nws : Readings, openmeteo : Readings]

\* Two sessions of as many polls whose primary source returns the same; in
\* the second every fetch of the secondary source fails.  Sessions that
\* differ in their secondary-source readings only have this second session
\* in common.
InitTwin ==
    /\ MonitorInit
    /\ predicted_max_temp = MaxTemp + 1
    /\ FetcherIdle
    /\ trader_pc = "Idle"
    /\ todays_markets = << >>
    /\ estimate = None
    /\ best_market = None
    /\ EnvIdle
    /\ RunStart
    /\ previous = None
    /\ RivalIdle
    /\ RequestIdle
    /\ tick = None
    /\ \E n \in 0 .. MaxPolls :
         /\ poll_log \in [1 .. n -> PollResults]
         /\ twin_log = [i \in 1 .. n |->
                         [nws |-> poll_log[i].nws, openmeteo |-> None]]
    /\ replayed = << >>
    /\ BetIdle

\* both sessions are run
MonitorTwice ==
    /\ replayed = << >>
    /\ replayed' = << monitor_buffer_period(poll_log, predicted_max_temp),
                      monitor_buffer_period(twin_log, predicted_max_temp) >>
    /\ UNCHANGED << poll_log, twin_log >>
    /\ UNCHANGED << monitorVars, fetcherVars >>
    /\ UNCHANGED << trader_pc, todays_markets, estimate, best_market >>
    /\ UNCHANGED << envVars, runVars, rivalVars, requestVars, tick, betVars >>

SpecTwin == InitTwin /\ [][MonitorTwice]_vars

\* int(x) of a float: the whole part, the fraction dropped towards zero
Truncated(x) ==
    IF x.num >= 0 THEN x.num \div x.den ELSE -((-x.num) \div x.den)

\* str(n) of an int, as an f-string formats it
Str(n) == IF n >= 0 THEN Decimal(n) ELSE << "-" >> \o Decimal(-n)

\* f"{bet_bucket_low}deg to {bet_bucket_high}deg"
BucketText(low, high) ==
    Str(low) \o << "deg", " ", "t", "o", " " >> \o Str(high) \o << "deg" >>

\* detected temperatures: whole and half degrees on both sides of zero
DetectedTemps == {Rat(n, 2) : n \in -2 * MaxDetected .. 2 * MaxDetected}

\* monitor_buffer_period has its detected_max and reaches "Determine bet"
InitBet ==
    /\ pc = "DetermineBet"
    /\ observations = << >>
    /\ check_count = 0
    /\ detected_max \in {Some(t) : t \in DetectedTemps}
    /\ detected_time = None
    /\ confidence = ConfInitial
    /\ loop_exit = "none"
    /\ session = None
    /\ predicted_max_temp = MaxTemp + 1
    /\ FetcherIdle
    /\ TraderIdle

\* lines 337-340
DetermineBet ==
    /\ pc = "DetermineBet"
    /\ LET low == Truncated(detected_max[1])
           high == low + 1
       IN  /\ bet_bucket_low' = Some(low)
           /\ bet_bucket_high' = Some(high)
           /\ bet_decision' = Some(BucketText(low, high))
    /\ pc' = "BetDetermined"
    /\ UNCHANGED << predicted_max_temp, observations, check_count,
                    detected_max, detected_time, confidence, loop_exit,
                    session >>
    /\ UNCHANGED << fetcherVars, trader_pc, todays_markets, estimate,
                    best_market, envVars, runVars, rivalVars, requestVars,
                    tick, twinVars >>

SpecBet == InitBet /\ [][DetermineBet]_vars

\* ------------------------------------------------------- market matching

\* get_markets_for_date has received a listing of one market
InitParse ==
    /\ MonitorInit
    /\ predicted_max_temp = MaxTemp + 1
    /\ fetcher_pc = "Parsing"
    /\ markets_data \in {<< text >> : text \in Subtitles}
    /\ markets = << >>
    /\ forecast_temp = None
    /\ found = None
    /\ TraderIdle

\* one iteration of "for m in markets_data"
ParseMarket ==
    /\ fetcher_pc = "Parsing"
    /\ markets_data # << >>
    /\ LET subtitle == Head(markets_data)
       IN  markets' = Append(markets,
                             KalshiMarket(subtitle, parse_market_range(subtitle)))
    /\ markets_data' = Tail(markets_data)
    /\ fetcher_pc' = IF Tail(markets_data) = << >> THEN "Listed" ELSE "Parsing"
    /\ UNCHANGED << forecast_temp, found >>
    /\ UNCHANGED << monitorVars, traderVars >>

\* find_market_for_forecast on the list get_markets_for_date returned
FindMarket ==
    /\ fetcher_pc = "Listed"
    /\ \E temp \in MatchTemps :
         /\ forecast_temp' = Some(temp)
         /\ found' = find_market_for_forecast(markets, temp)
    /\ fetcher_pc' = "Matched"
    /\ UNCHANGED << markets_data, markets >>
    /\ UNCHANGED << monitorVars, traderVars >>

NextParse ==
    \/ ParseMarket
    \/ FindMarket

SpecParse == InitParse /\ [][NextParse]_vars

\* ------------------------------------------------- matching over a list

\* A day's market list has been received, by get_markets_for_date and by
\* get_todays_markets.
InitMatch ==
    /\ MonitorInit
    /\ predicted_max_temp = MaxTemp + 1
    /\ fetcher_pc = "Parsing"
    /\ markets_data \in Listings
    /\ markets = << >>
    /\ forecast_temp = None
    /\ found = None
    /\ trader_pc = "Listed"
    /\ todays_markets = markets_data
    /\ estimate = None
    /\ best_market = None
    /\ EngineIdle

\* find_best_market on the list get_todays_markets returned, called once
\* the KalshiFetcher has matched its own list
FindBestMarket ==
    /\ trader_pc = "Listed"
    /\ fetcher_pc = "Matched"
    /\ \E temp \in MatchValues :
         /\ estimate' = Some(temp)
         /\ best_market' = find_best_market(todays_markets, temp)
    /\ trader_pc' = "Matched"
    /\ UNCHANGED << todays_markets, engineVars >>
    /\ UNCHANGED << monitorVars, fetcherVars >>

NextMatch ==
    \/ ParseMarket
    \/ FindMarket
    \/ FindBestMarket

SpecMatch == InitMatch /\ [][NextMatch]_vars

\* ------------------------------------------------- the decision engine

\* the day's list in a decision run: two ranges that share a boundary and
\* a text of no form, in any order; the list may be empty
TradeTexts == {RangeText(1, 2), RangeText(2, 3), garbage}
TradeListings == UNION {[1 .. n -> TradeTexts] : n \in 0 .. MaxMarkets}

\* the clock of a run: the hour before observed data counts, and that hour
TradeTimes == {Time(0, FirstObservedHour - 1), Time(0, FirstObservedHour)}

\* hourly forecasts of the day: none, a maximum at hour 0, a maximum later
TradeHourly == {None, Some(<< 2, 1, 1 >>), Some(<< 1, 1, 2 >>)}

\* observed readings: none, one on the shared boundary, one in no range
TradeObserved == {None, Some(Whole(2)), Some(Whole(4))}

\* what the three forecast sources return
TradeSources ==
    [OpenMeteo : {None, Some(Whole(2))},
     NWS : {None, Some(Whole(0)), Some(Whole(1))},
     MSN : {None, Some(Whole(5))}]

\* make_trading_decision has been called; the answers of the outside world
\* to the run are fixed.  LiveTrader has no cooling-trend strategy.
InitTrade ==
    /\ MonitorInit
    /\ predicted_max_temp = MaxTemp + 1
    /\ FetcherIdle
    /\ trader_pc = "Called"
    /\ todays_markets \in TradeListings
    /\ estimate = None
    /\ best_market = None
    /\ engine \in {"LiveTrader", "EnhancedLiveTrader"}
    /\ today \in TradeTimes
    /\ now = today
    /\ source_temps \in TradeSources
    /\ IF engine = "LiveTrader"
       THEN /\ check_cooling_trend = FALSE
            /\ hourly_data = None
            /\ observed_temp = None
       ELSE /\ check_cooling_trend \in BOOLEAN
            /\ hourly_data \in TradeHourly
            /\ observed_temp \in TradeObserved
    /\ RunStart
    /\ previous = None
    /\ RivalIdle
    /\ RequestIdle
    /\ tick = None
    /\ TwinIdle
    /\ BetIdle

\* date=datetime.now().strftime('%Y-%m-%d') on a clock that has moved on
\* by the time of a second run
DecisionDate_moving_clock == now.day + Len(previous)

\* date=datetime.now().strftime('%Y-%m-%d')
DecisionDate == now.day

\* lines 222-225: the cooling-trend check
DetectCoolingTrend ==
    /\ trader_pc = "Called"
    /\ engine = "EnhancedLiveTrader"
    /\ check_cooling_trend
    /\ LET opportunity ==
               detect_cooling_trend(today, now, hourly_data, observed_temp)
       IN  /\ cooling_opportunity' = opportunity
           /\ trader_pc' = IF opportunity # None
                           THEN "CoolingTrend" ELSE "Forecast"
    /\ UNCHANGED << todays_markets, estimate, best_market, envVars,
                    forecast_consulted, forecasts, estimated, market_queries,
                    decision, previous, rivalVars >>
    /\ UNCHANGED << monitorVars, fetcherVars, requestVars, tick,
                    twinVars, betVars >>

\* "if check_cooling_trend:" with the argument False
SkipCoolingTrend ==
    /\ trader_pc = "Called"
    /\ engine = "EnhancedLiveTrader"
    /\ ~check_cooling_trend
    /\ trader_pc' = "Forecast"
    /\ UNCHANGED << todays_markets, estimate, best_market, engineVars >>
    /\ UNCHANGED << monitorVars, fetcherVars >>

\* lines 227-263: the markets are fetched and the observed reading matched;
\* without a matching market the run goes on to the forecast strategy
CoolingMarkets ==
    /\ trader_pc = "CoolingTrend"
    /\ market_queries' = market_queries + 1
    /\ IF todays_markets = << >>
       THEN /\ trader_pc' = "Done"
            /\ decision' = None
            /\ UNCHANGED << estimate, best_market >>
       ELSE LET opportunity == cooling_opportunity[1]
                best == find_best_market(todays_markets,
                                         opportunity.observed_temp)
            IN  /\ estimate' = Some(opportunity.observed_temp)
                /\ best_market' = best
                /\ trader_pc' = IF best = None THEN "Forecast" ELSE "Done"
                /\ decision' = DecisionFor(DecisionDate,
                                           opportunity.observed_temp,
                                           "CoolingTrend(Observed)",
                                           opportunity.confidence,
                                           todays_markets, best)
    /\ UNCHANGED << todays_markets, envVars, cooling_opportunity,
                    forecast_consulted, forecasts, estimated, previous,
                    rivalVars >>
    /\ UNCHANGED << monitorVars, fetcherVars, requestVars, tick,
                    twinVars, betVars >>

\* lines 269-276: the forecasts are fetched; with none the run ends
GetTodayForecast ==
    /\ trader_pc = "Forecast"
    /\ forecast_consulted' = TRUE
    /\ forecasts' = get_today_forecast_enhanced(source_temps)
    /\ trader_pc' = IF forecasts' = << >> THEN "Done" ELSE "Consensus"
    /\ UNCHANGED << todays_markets, estimate, best_market, envVars,
                    cooling_opportunity, estimated, market_queries, decision,
                    previous, rivalVars >>
    /\ UNCHANGED << monitorVars, fetcherVars, requestVars, tick,
                    twinVars, betVars >>

\* lines 284-319: consensus, markets, match and decision
ConsensusMarkets ==
    /\ trader_pc = "Consensus"
    /\ LET result == get_weighted_consensus(forecasts)
       IN  /\ estimated' = Some(result)
           /\ market_queries' = market_queries + 1
           /\ IF todays_markets = << >>
              THEN /\ decision' = None
                   /\ UNCHANGED << estimate, best_market >>
              ELSE LET best == find_best_market(todays_markets,
                                                result.consensus[1])
                   IN  /\ estimate' = result.consensus
                       /\ best_market' = best
                       /\ decision' = DecisionFor(DecisionDate,
                                                  result.consensus[1],
                                                  "WeightedConsensus(MSN)",
                                                  result.confidence,
                                                  todays_markets, best)
    /\ trader_pc' = "Done"
    /\ UNCHANGED << todays_markets, envVars, cooling_opportunity,
                    forecast_consulted, forecasts, previous, rivalVars >>
    /\ UNCHANGED << monitorVars, fetcherVars, requestVars, tick,
                    twinVars, betVars >>

\* LiveTrader.make_trading_decision
LiveTraderDecision ==
    /\ trader_pc = "Called"
    /\ engine = "LiveTrader"
    /\ forecast_consulted' = TRUE
    /\ LET fs == get_today_forecast(source_temps)
           result == get_consensus_forecast(fs)
       IN  /\ forecasts' = fs
           /\ IF fs = << >>
              THEN /\ decision' = None
                   /\ UNCHANGED << estimated, market_queries, estimate,
                                   best_market >>
              ELSE /\ estimated' = Some(result)
                   /\ market_queries' = market_queries + 1
                   /\ IF todays_markets = << >>
                      THEN /\ decision' = None
                           /\ UNCHANGED << estimate, best_market >>
                      ELSE LET best == find_best_market(todays_markets,
                                                        result.consensus[1])
                           IN  /\ estimate' = result.consensus
                               /\ best_market' = best
                               /\ decision' =
                                      DecisionFor(DecisionDate,
                                                  result.consensus[1],
                                                  "Consensus",
                                                  result.confidence,
                                                  todays_markets, best)
    /\ trader_pc' = "Done"
    /\ UNCHANGED << todays_markets, envVars, cooling_opportunity, previous,
                    rivalVars >>
    /\ UNCHANGED << monitorVars, fetcherVars, requestVars, tick,
                    twinVars, betVars >>

\* The caller runs make_trading_decision a second time on the same trader,
\* with the same answers of the outside world.
Rerun ==
    /\ trader_pc = "Done"
    /\ previous = None
    /\ previous' = Some(decision)
    /\ trader_pc' = "Called"
    /\ estimate' = None
    /\ best_market' = None
    /\ cooling_opportunity' = None
    /\ forecast_consulted' = FALSE
    /\ forecasts' = << >>
    /\ estimated' = None
    /\ market_queries' = 0
    /\ decision' = None
    /\ UNCHANGED << todays_markets, envVars, rivalVars >>
    /\ UNCHANGED << monitorVars, fetcherVars, requestVars, tick,
                    twinVars, betVars >>

NextTrade ==
    \/ DetectCoolingTrend
    \/ SkipCoolingTrend
    \/ CoolingMarkets
    \/ GetTodayForecast
    \/ ConsensusMarkets
    \/ LiveTraderDecision
    \/ Rerun

SpecTrade == InitTrade /\ [][NextTrade]_vars

\* --------------------------------------------- the cooling-trend check

\* hourly forecasts: none, or the temperatures of the hours 0, 1, ... of
\* the target date, as many as the forecast covers
HourlyTemps == {1, 2}
HourlyForecasts ==
    {None} \cup {Some(d) : d \in UNION {[1 .. n -> HourlyTemps]
                                          : n \in 0 .. MaxHour + 1}}

\* the clock read by the caller, and the clock read again inside
\* detect_cooling_trend: not earlier, and on the next day at most
CallTimes == {Time(0, h) : h \in 0 .. MaxHour}
LaterTimes(t) ==
    {Time(0, h) : h \in t.hour .. MaxHour} \cup {Time(1, h) : h \in 0 .. MaxHour}

\* EnhancedLiveTrader.make_trading_decision has been called with
\* check_cooling_trend=True; no market is listed
InitCooling ==
    /\ MonitorInit
    /\ predicted_max_temp = MaxTemp + 1
    /\ FetcherIdle
    /\ trader_pc = "Called"
    /\ todays_markets = << >>
    /\ estimate = None
    /\ best_market = None
    /\ engine = "EnhancedLiveTrader"
    /\ check_cooling_trend = TRUE
    /\ today \in CallTimes
    /\ now \in LaterTimes(today)
    /\ hourly_data \in HourlyForecasts
    /\ observed_temp \in {None, Some(Whole(2))}
    /\ source_temps = [OpenMeteo |-> None, NWS |-> None, MSN |-> None]
    /\ RunStart
    /\ previous = None
    /\ RivalIdle
    /\ RequestIdle
    /\ tick = None
    /\ TwinIdle
    /\ BetIdle

SpecCooling == InitCooling /\ [][DetectCoolingTrend]_vars

\* ------------------------------------------------ the two estimators

\* A forecasts dict over the given sources, in their order: each source
\* is absent or has a temperature of the given set.
RECURSIVE Mappings(_, _)
Mappings(sources, temps) ==
    IF sources = << >> THEN {<< >>}
    ELSE LET rest == Mappings(Tail(sources), temps)
         IN  rest \cup {<< Forecast(Head(sources), Whole(t)) >> \o m
                          : t \in temps, m \in rest}

\* "Unlisted" stands for a source that the weights dict does not name
SampleSources == << "OpenMeteo", "NWS", "MSN", "Unlisted" >>
Samples == Mappings(SampleSources, 0 .. MaxForecast)

\* the dicts a sample is compared with
Rivals == Mappings(<< "OpenMeteo", "NWS", "MSN" >>, {1, 2})

\* two forecasts dicts are at hand
InitConsensus ==
    /\ MonitorInit
    /\ predicted_max_temp = MaxTemp + 1
    /\ FetcherIdle
    /\ trader_pc = "Sampled"
    /\ todays_markets = << >>
    /\ estimate = None
    /\ best_market = None
    /\ EnvIdle
    /\ cooling_opportunity = None
    /\ forecast_consulted = TRUE
    /\ forecasts \in Samples
    /\ estimated = None
    /\ market_queries = 0
    /\ decision = None
    /\ previous = None
    /\ rival \in Rivals
    /\ rival_estimated = None
    /\ RequestIdle
    /\ tick = None
    /\ TwinIdle
    /\ BetIdle

\* EnhancedLiveTrader.get_weighted_consensus on each of the two dicts
GetWeightedConsensus ==
    /\ trader_pc = "Sampled"
    /\ engine' = "EnhancedLiveTrader"
    /\ estimated' = Some(get_weighted_consensus(forecasts))
    /\ rival_estimated' = Some(get_weighted_consensus(rival))
    /\ trader_pc' = "Estimated"
    /\ UNCHANGED << todays_markets, estimate, best_market,
                    check_cooling_trend, today, now, hourly_data,
                    observed_temp, source_temps, cooling_opportunity,
                    forecast_consulted, forecasts, market_queries, decision,
                    previous, rival >>
    /\ UNCHANGED << monitorVars, fetcherVars, requestVars, tick,
                    twinVars, betVars >>

\* LiveTrader.get_consensus_forecast on each of the two dicts
GetConsensusForecast ==
    /\ trader_pc = "Sampled"
    /\ engine' = "LiveTrader"
    /\ estimated' = Some(get_consensus_forecast(forecasts))
    /\ rival_estimated' = Some(get_consensus_forecast(rival))
    /\ trader_pc' = "Estimated"
    /\ UNCHANGED << todays_markets, estimate, best_market,
                    check_cooling_trend, today, now, hourly_data,
                    observed_temp, source_temps, cooling_opportunity,
                    forecast_consulted, forecasts, market_queries, decision,
                    previous, rival >>
    /\ UNCHANGED << monitorVars, fetcherVars, requestVars, tick,
                    twinVars, betVars >>

NextConsensus ==
    \/ GetWeightedConsensus
    \/ GetConsensusForecast

SpecConsensus == InitConsensus /\ [][NextConsensus]_vars

\* ------------------------------------------------------------ vocabulary

NwsSamples == SelectSeq(observations, IsNWS)

Temperatures(seq) == [k \in 1 .. Len(seq) |-> seq[k].temperature]

\* temp is the greatest temperature of seq and time is the timestamp of the
\* first sample that has it
IsEarliestPeak(seq, temp, time) ==
    \E i \in 1 .. Len(seq) :
        /\ seq[i].temperature = temp
        /\ seq[i].timestamp = time
        /\ \A j \in 1 .. Len(seq) : seq[j].temperature <= temp
        /\ \A j \in 1 .. i - 1 : seq[j].temperature < temp

\* the rule of the spec on the last three temperatures of a sequence
DecliningTrend(t) ==
    LET n == Len(t) IN t[n] < t[n - 1] /\ t[n - 1] <= t[n - 2]

StrictlyIncreasing(t) == \A k \in 1 .. Len(t) - 1 : t[k] < t[k + 1]

\* The detector has been evaluated on the current window and the locals
\* still hold what it returned.
Evaluated == pc \in {"Monitoring", "Detected", "TimedOut"} /\ check_count >= 1

DetectionReported == detected_max # None

\* ----------------------------------------------------------------- claims

\* C1: the loop performs at most 12 polls and then the session is finalized,
\* whatever the fetches and the clock return: check_count never exceeds 12,
\* the loop test is not reached again once it is 12, every step that stays in
\* the loop is a poll that spends one unit of the budget, and a session that
\* entered the loop can always take its next step until it is closed with a
\* MonitoringSession.
C1_PollBudget ==
    /\ [](check_count <= MaxChecks)
    /\ [](pc = "Monitoring" => check_count < MaxChecks)
    /\ [](pc \in {"Monitoring", "Detected", "TimedOut"} => ENABLED Next)
    /\ [](pc = "Closed" => session # None)
    /\ [][(pc = "Monitoring" /\ pc' = "Monitoring")
            => check_count' = check_count + 1]_vars
    /\ [][(pc = "Monitoring" /\ pc' # "Monitoring")
            => pc' \in {"Detected", "TimedOut"}]_vars
    /\ [][(pc \in {"Detected", "TimedOut"}) => pc' = "Closed"]_vars

C1_Witness ==
    pc = "Closed" /\ check_count = MaxChecks /\ loop_exit = "break_budget"

\* C2 as the spec states it: a detection is reported only on a window that
\* holds at least three primary-source samples.
C2_PrimaryOnly ==
    (Evaluated /\ DetectionReported) => Len(NwsSamples) >= MinSamples

\* C2, amended: a detection is reported only on a window of at least three
\* samples; with fewer than three primary-source samples the rule is applied
\* to the last three samples of both sources together, and a window of fewer
\* than three samples in all is Undetermined.
C2_ThreeSamplesAnySource ==
    Evaluated =>
        /\ (Len(observations) < MinSamples => ~DetectionReported)
        /\ (Len(observations) >= MinSamples /\ Len(NwsSamples) < MinSamples
              => (DetectionReported
                    <=> DecliningTrend(Temperatures(observations))))

C2_Witness ==
    /\ pc = "Detected"
    /\ Len(NwsSamples) < MinSamples
    /\ \E k \in 1 .. Len(observations) : observations[k].source = "OpenMeteo"

\* C3: on a window of at least three primary-source samples a detection is
\* reported iff the last three primary-source temperatures are a non-increase
\* followed by a strict decrease.
C3_DecliningRule ==
    (Evaluated /\ Len(NwsSamples) >= MinSamples)
        => (DetectionReported <=> DecliningTrend(Temperatures(NwsSamples)))

\* a flat reading followed by a drop fired
C3_Witness ==
    /\ pc = "Detected"
    /\ Len(NwsSamples) >= MinSamples
    /\ LET t == Temperatures(NwsSamples)
       IN  t[Len(t) - 1] = t[Len(t) - 2]

\* C4 as the spec states it: the detected peak is the greatest primary-source
\* temperature, at the timestamp of the earliest primary-source sample that
\* has it.
C4_PeakOverPrimary ==
    pc = "Detected"
        => IsEarliestPeak(NwsSamples, detected_max[1], detected_time[1])

\* C4, amended: the detected peak is the earliest greatest sample among the
\* samples the rule was applied to: all primary-source samples when there
\* are at least three of them, otherwise all samples of both sources.
C4_PeakOverExamined ==
    pc = "Detected"
        => IF Len(NwsSamples) >= MinSamples
           THEN IsEarliestPeak(NwsSamples, detected_max[1], detected_time[1])
           ELSE IsEarliestPeak(observations, detected_max[1], detected_time[1])

\* the peak is a primary-source sample older than the three examined, and it
\* occurs twice
C4_Witness ==
    /\ pc = "Detected"
    /\ LET t == Temperatures(NwsSamples)
       IN  /\ Len(t) > MinSamples
           /\ \A k \in Len(t) - 2 .. Len(t) : t[k] < detected_max[1]

\* C5 as the spec states it: a loop that ends without a detection on a
\* non-empty window yields the highest sample at confidence 0.75, and a
\* strictly increasing primary-source sequence never triggers a detection.
C5_NoDeclineFallback ==
    /\ (pc = "Closed" /\ loop_exit # "break_detected" /\ observations # << >>)
          => /\ IsEarliestPeak(observations, session[1].detected_max_temp,
                               session[1].detected_max_time)
             /\ session[1].confidence = ConfTimedOut
    /\ (Len(NwsSamples) >= 2 /\ StrictlyIncreasing(Temperatures(NwsSamples)))
          => loop_exit # "break_detected"

\* C5, amended: the same, the second part for windows that hold at least
\* three primary-source samples.
C5_NoDeclineFallbackPrimary ==
    /\ (pc = "Closed" /\ loop_exit # "break_detected" /\ observations # << >>)
          => /\ IsEarliestPeak(observations, session[1].detected_max_temp,
                               session[1].detected_max_time)
             /\ session[1].confidence = ConfTimedOut
    /\ (Len(NwsSamples) >= MinSamples
           /\ StrictlyIncreasing(Temperatures(NwsSamples)))
          => /\ loop_exit # "break_detected"
             /\ pc = "Closed" => session[1].confidence = ConfTimedOut

\* a strictly increasing primary-source run of three, mixed with a
\* secondary-source sample, ran out of polls and closed on its last reading
C5_Witness ==
    /\ pc = "Closed"
    /\ loop_exit = "break_budget"
    /\ Len(NwsSamples) >= MinSamples
    /\ Len(observations) > Len(NwsSamples)
    /\ StrictlyIncreasing(Temperatures(NwsSamples))
    /\ session[1].detected_max_temp = NwsSamples[Len(NwsSamples)].temperature

\* C6: a loop that ends on an empty window yields the forecast value at
\* confidence 0.60.
C6_ForecastFallback ==
    (pc = "Closed" /\ observations = << >>)
        => /\ session # None
           /\ session[1].detected_max_temp = predicted_max_temp
           /\ session[1].confidence = ConfForecast

\* all twelve polls ran and every fetch failed
C6_Witness ==
    pc = "Closed" /\ observations = << >> /\ check_count = MaxChecks

C8_TerminatedHasResult ==
    pc \in {"Closed", "Interrupted"}
        => /\ session # None
           /\ (observations = << >>
                 => session[1].confidence = ConfForecast)

\* C9: every market whose subtitle is "X deg to Y deg", "X deg or above" or
\* "X deg or below" is listed with the range (X, Y), (X, inf) or (-inf, X).
C9_ParseRecognized ==
    \A k \in 1 .. Len(markets) :
        /\ \A x, y \in Degrees :
             markets[k].subtitle = RangeText(x, y)
                 => markets[k].temp_range = << Fin(x), Fin(y) >>
        /\ \A x \in Degrees :
             /\ markets[k].subtitle = AboveText(x)
                  => markets[k].temp_range = << Fin(x), PosInf >>
             /\ markets[k].subtitle = BelowText(x)
                  => markets[k].temp_range = << NegInf, Fin(x) >>

\* a range from a one-digit to a two-digit number has been parsed
C9_Witness ==
    /\ markets # << >>
    /\ markets[1].subtitle = RangeText(9, 10)
    /\ markets[1].temp_range = << Fin(9), Fin(10) >>

\* C10: a market whose subtitle is none of the three forms has no numeric
\* range: no temperature lies in it, and the matcher never returns it.
C10_UnrecognizedNeverMatched ==
    fetcher_pc = "Matched" =>
        \A k \in 1 .. Len(markets) :
            markets[k].subtitle \notin RecognizedTexts
                => /\ \A temp \in MatchTemps : ~InRange(markets[k], temp)
                   /\ found # Some(k)

\* the range a subtitle of one of the three forms names contains the value
Contains(text, v) ==
    \/ \E x, y \in Buckets :
         text = RangeText(x, y) /\ x * v.den <= v.num /\ v.num <= y * v.den
    \/ \E x \in Buckets : text = AboveText(x) /\ x * v.den <= v.num
    \/ \E x \in Buckets : text = BelowText(x) /\ v.num <= x * v.den

\* C11: both matchers return the first market in list order whose range
\* contains the value, both ends of a range included, and return nothing
\* exactly when no range of the list contains it.
C11_FirstRangeWins ==
    /\ fetcher_pc = "Matched" =>
          LET temp == forecast_temp[1]
              hit(k) == InRange(markets[k], temp)
          IN  /\ found = None <=> \A k \in 1 .. Len(markets) : ~hit(k)
              /\ found # None =>
                    /\ found[1] \in 1 .. Len(markets)
                    /\ hit(found[1])
                    /\ \A j \in 1 .. found[1] - 1 : ~hit(j)
    /\ trader_pc = "Matched" =>
          LET temp == estimate[1]
              hit(k) == Contains(todays_markets[k], temp)
          IN  /\ best_market = None
                    <=> \A k \in 1 .. Len(todays_markets) : ~hit(k)
              /\ best_market # None =>
                    /\ best_market[1] \in 1 .. Len(todays_markets)
                    /\ hit(best_market[1])
                    /\ \A j \in 1 .. best_market[1] - 1 : ~hit(j)

\* a value on the boundary shared by two ranges went to the earlier one,
\* in both matchers
C11_Witness ==
    /\ trader_pc = "Matched"
    /\ todays_markets = << RangeText(1, 2), RangeText(2, 3) >>
    /\ estimate = Some(Rat(4, 2))
    /\ best_market = Some(1)
    /\ forecast_temp = Some(2)
    /\ found = Some(1)

\* no market of the day's list contains the value
MatchesNone(v) ==
    \A k \in 1 .. Len(todays_markets) : ~Contains(todays_markets[k], v)

\* the value of the strategy the run selected first: the observed reading
\* when the cooling-trend check returned an opportunity, else the consensus
SelectedValue ==
    IF cooling_opportunity # None THEN observed_temp
    ELSE IF estimated # None THEN estimated[1].consensus
    ELSE None

\* C12 as stated: a run whose selected strategy's value matches no market
\* of the day ends with no decision.
C12_NoDecisionWithoutMatch ==
    (/\ trader_pc = "Done"
     /\ todays_markets # << >>
     /\ SelectedValue # None
     /\ MatchesNone(SelectedValue[1]))
        => decision = None

\* C12, amended: a consensus value that matches no market ends the run with
\* no decision; an observed reading that matches no market sends the run on
\* to the forecast strategy, whose decision, if any, carries the consensus;
\* every decision names a market of the list that contains its estimate.
C12_FallbackThenNoDecision ==
    trader_pc = "Done" =>
        /\ decision # None =>
             /\ decision[1].market_ticker \in 1 .. Len(todays_markets)
             /\ decision[1].market_subtitle
                    = todays_markets[decision[1].market_ticker]
             /\ Contains(decision[1].market_subtitle,
                         decision[1].forecast_temp)
        /\ (/\ estimated # None
            /\ todays_markets # << >>
            /\ MatchesNone(estimated[1].consensus[1]))
               => decision = None
        /\ (/\ cooling_opportunity # None
            /\ todays_markets # << >>
            /\ MatchesNone(observed_temp[1]))
               => /\ forecast_consulted
                  /\ decision # None =>
                       /\ decision[1].source = "WeightedConsensus(MSN)"
                       /\ decision[1].forecast_temp
                              = estimated[1].consensus[1]

\* the observed reading matched no market and the run returned a decision
\* on the forecast consensus
C12_Witness ==
    /\ trader_pc = "Done"
    /\ cooling_opportunity # None
    /\ todays_markets # << >>
    /\ MatchesNone(observed_temp[1])
    /\ decision # None
    /\ decision[1].source = "WeightedConsensus(MSN)"

\* the hour of the day's maximum in the hourly forecast: the first hour
\* whose temperature no hour of the day exceeds
IsPredictedMaxHour(day_temps, h) ==
    /\ h + 1 \in 1 .. Len(day_temps)
    /\ \A j \in 1 .. Len(day_temps) : day_temps[j] <= day_temps[h + 1]
    /\ \A j \in 1 .. h : day_temps[j] < day_temps[h + 1]

\* the evaluation is past hour 2 of the day the run was called on
PastHourTwo == now.day > today.day \/ now.hour >= 2

\* the cooling-trend strategy is consulted, finds the day's maximum at hour
\* 0 or 1, is evaluated past hour 2 and has an observed reading
CoolingEligible ==
    /\ engine = "EnhancedLiveTrader"
    /\ check_cooling_trend
    /\ hourly_data # None
    /\ \E h \in {0, 1} : IsPredictedMaxHour(hourly_data[1], h)
    /\ PastHourTwo
    /\ observed_temp # None

\* C13: when the cooling-trend strategy is eligible and its observed
\* reading matches a market, the run returns a decision on that reading,
\* with confidence 0.99, attributed to the cooling-trend strategy, on the
\* first market that contains the reading, and never fetches the forecasts.
C13_CoolingTrendFirst ==
    (/\ trader_pc = "Done"
     /\ CoolingEligible
     /\ ~MatchesNone(observed_temp[1]))
        => /\ decision # None
           /\ decision[1].forecast_temp = observed_temp[1]
           /\ decision[1].confidence = Conf(Rat(99, 100), Whole(0))
           /\ decision[1].source = "CoolingTrend(Observed)"
           /\ Contains(decision[1].market_subtitle, observed_temp[1])
           /\ \A j \in 1 .. decision[1].market_ticker - 1 :
                 ~Contains(todays_markets[j], observed_temp[1])
           /\ ~forecast_consulted
           /\ forecasts = << >>

\* an eligible run decided on the observed reading although all three
\* forecast sources had a forecast to report
C13_Witness ==
    /\ trader_pc = "Done"
    /\ CoolingEligible
    /\ decision # None
    /\ decision[1].source = "CoolingTrend(Observed)"
    /\ decision[1].forecast_temp = Whole(2)
    /\ todays_markets = << RangeText(1, 2), RangeText(2, 3) >>
    /\ decision[1].market_ticker = 1
    /\ \A src \in DOMAIN source_temps : TruthyTemp(source_temps[src])

\* C14: detect_cooling_trend returns an opportunity only if the day's
\* maximum is forecast at hour 0 or 1 and the evaluation is past hour 2 of
\* the day; a maximum at hour 2 or later, or an earlier evaluation, gives
\* no opportunity.
C14_CoolingEligibility ==
    trader_pc \in {"CoolingTrend", "Forecast"} =>
        /\ cooling_opportunity # None =>
             /\ hourly_data # None
             /\ \E h \in {0, 1} : IsPredictedMaxHour(hourly_data[1], h)
             /\ PastHourTwo
             /\ cooling_opportunity[1].max_temp_hour \in {0, 1}
        /\ (/\ hourly_data # None
            /\ \E h \in 2 .. MaxHour : IsPredictedMaxHour(hourly_data[1], h))
               => cooling_opportunity = None
        /\ ~PastHourTwo => cooling_opportunity = None

\* an opportunity on a day whose maximum is forecast at hour 1, evaluated
\* at hour 2
C14_Witness ==
    /\ trader_pc = "CoolingTrend"
    /\ cooling_opportunity # None
    /\ cooling_opportunity[1].max_temp_hour = 1
    /\ hourly_data = Some(<< 1, 2, 2, 1 >>)
    /\ now = Time(0, 2)

\* the sum of f[i] over the positions i of S
RECURSIVE Total(_, _)
Total(f, S) ==
    IF S = {} THEN 0
    ELSE LET i == CHOOSE j \in S : TRUE
         IN  f[i] + Total(f, S \ {i})

\* twice the weight of a source: the table entry, or the default 1.0
TwiceWeight(source) ==
    CASE source \in {"MSN", "NWS"} -> 4
      [] source = "OpenMeteo" -> 3
      [] OTHER -> 2

\* whole degrees of the i-th sample
Degree(fs, i) == fs[i].temp.num

\* C15: the consensus of a non-empty dict is the sum of temperature times
\* weight over the sum of the weights, the weight of a source being its
\* table entry or the default; LiveTrader has no table, so every source
\* has the default weight.  With equal weights the consensus is the
\* arithmetic mean.
C15_WeightedMean ==
    (trader_pc = "Estimated" /\ forecasts # << >>) =>
        LET places == 1 .. Len(forecasts)
            c == estimated[1].consensus[1]
            w == [i \in places |->
                    IF engine = "EnhancedLiveTrader"
                    THEN TwiceWeight(forecasts[i].source) ELSE 2]
            tw == [i \in places |-> Degree(forecasts, i) * w[i]]
            t == [i \in places |-> Degree(forecasts, i)]
        IN  /\ estimated[1].consensus # None
            /\ c.den > 0
            /\ c.num * Total(w, places) = c.den * Total(tw, places)
            /\ (\A i, j \in places : w[i] = w[j])
                  => c.num * Len(forecasts) = c.den * Total(t, places)

\* the end-to-end case in small: OpenMeteo 1, NWS 2 and MSN 3 give
\* (1.5 + 4 + 6) / 5.5 = 23/11, not the mean 2
C15_Witness ==
    /\ trader_pc = "Estimated"
    /\ engine = "EnhancedLiveTrader"
    /\ forecasts = << Forecast("OpenMeteo", Whole(1)),
                      Forecast("NWS", Whole(2)), Forecast("MSN", Whole(3)) >>
    /\ estimated[1].consensus = Some(Rat(23, 11))

\* n * n times the population variance of the temperatures of a dict of n
\* samples
ScaledVariance(fs) ==
    LET places == 1 .. Len(fs)
        t == [i \in places |-> Degree(fs, i)]
        tt == [i \in places |-> Degree(fs, i) * Degree(fs, i)]
    IN  Len(fs) * Total(tt, places) - Total(t, places) * Total(t, places)

\* the mean square deviation of the temperatures from the value c
MeanSquareDeviation(fs, c) ==
    LET places == 1 .. Len(fs)
        dd == [i \in places |->
                 (Degree(fs, i) * c.den - c.num) * (Degree(fs, i) * c.den - c.num)]
    IN  Quotient(Total(dd, places), Len(fs) * c.den * c.den)

\* confidences of one base compare by their penalties
ConfGeq(a, b) == a.base = b.base /\ RatLeq(a.less, b.less)

\* the confidence lies in [0, 1]
InUnitInterval(c) ==
    /\ RatLeq(Whole(0), c.base)
    /\ RatLeq(c.base, Whole(1))
    /\ RatLeq(Whole(0), c.less)
    /\ RatLeq(c.less, Square(c.base))

\* a priority source of the dict is less than 1.0 away from the value c
PriorityAgrees(fs, c) ==
    \E i \in 1 .. Len(fs) :
        /\ fs[i].source \in {"NWS", "MSN"}
        /\ Magnitude(Degree(fs, i) * c.den - c.num) < c.den

\* two dicts of at least two samples each, of one size and one priority
\* agreement, have been estimated
Comparable ==
    /\ trader_pc = "Estimated"
    /\ Len(forecasts) >= 2
    /\ Len(rival) = Len(forecasts)
    /\ PriorityAgrees(forecasts, estimated[1].consensus[1])
           <=> PriorityAgrees(rival, rival_estimated[1].consensus[1])

\* C16 as stated: for dicts of at least two samples, of one size and one
\* priority agreement, the confidence does not increase with the standard
\* deviation of the temperatures; the penalty is at most 0.30 and the
\* confidence lies in [0, 1].
C16_MonotoneInStdDev ==
    /\ (Comparable /\ ScaledVariance(forecasts) <= ScaledVariance(rival))
          => ConfGeq(estimated[1].confidence, rival_estimated[1].confidence)
    /\ (trader_pc = "Estimated" /\ Len(forecasts) >= 2)
          => /\ RatLeq(estimated[1].confidence.less, Rat(9, 100))
             /\ InUnitInterval(estimated[1].confidence)

\* C16, amended: the confidence does not increase with the root mean
\* square deviation of the temperatures from the consensus value, which is
\* the standard deviation only when the consensus is the plain mean.
\* EnhancedLiveTrader subtracts min(deviation / 3, 0.30) from a base of
\* 0.85 or 0.70; LiveTrader subtracts deviation / 6 from 1.0, a penalty
\* that passes 0.30 and is cut only at 1.0.  Both stay in [0, 1].
C16_MonotoneInDeviation ==
    /\ (/\ Comparable
        /\ RatLeq(MeanSquareDeviation(forecasts, estimated[1].consensus[1]),
                  MeanSquareDeviation(rival, rival_estimated[1].consensus[1])))
          => ConfGeq(estimated[1].confidence, rival_estimated[1].confidence)
    /\ (trader_pc = "Estimated" /\ Len(forecasts) >= 2)
          => LET conf == estimated[1].confidence
                 dev == MeanSquareDeviation(forecasts,
                                            estimated[1].consensus[1])
             IN  /\ InUnitInterval(conf)
                 /\ engine = "EnhancedLiveTrader"
                      => /\ conf.base
                              = IF PriorityAgrees(forecasts,
                                                  estimated[1].consensus[1])
                                THEN Rat(17, 20) ELSE Rat(7, 10)
                         /\ conf.less = RatMin(RatDiv(dev, Whole(9)),
                                               Rat(9, 100))
                 /\ engine = "LiveTrader"
                      => /\ conf.base = Whole(1)
                         /\ conf.less = RatMin(RatDiv(dev, Whole(36)),
                                               Whole(1))

\* two dicts of one standard deviation, NWS 1 with MSN 2 and NWS 1 with
\* OpenMeteo 2, of which the second is further from its consensus and has
\* the lower confidence
C16_Witness ==
    /\ trader_pc = "Estimated"
    /\ engine = "EnhancedLiveTrader"
    /\ forecasts = << Forecast("NWS", Whole(1)), Forecast("MSN", Whole(2)) >>
    /\ rival = << Forecast("OpenMeteo", Whole(2)), Forecast("NWS", Whole(1)) >>
    /\ Comparable
    /\ ScaledVariance(forecasts) = ScaledVariance(rival)
    /\ estimated[1].confidence # rival_estimated[1].confidence
    /\ ConfGeq(estimated[1].confidence, rival_estimated[1].confidence)

\* C17 as stated: dicts of exactly one sample all get one and the same
\* confidence, whichever source and temperature the sample has.
C17_OneBaseline ==
    (/\ trader_pc = "Estimated"
     /\ Len(forecasts) = 1
     /\ Len(rival) = 1)
        => estimated[1].confidence = rival_estimated[1].confidence

\* C17, amended: a dict of exactly one sample gets, whatever the
\* temperature, 0.8 times the base confidence in EnhancedLiveTrader, which
\* is 0.68 for a priority source (NWS, MSN) and 0.56 for any other source,
\* and 0.70 in LiveTrader.
C17_BaselineBySource ==
    (trader_pc = "Estimated" /\ Len(forecasts) = 1) =>
        estimated[1].confidence =
            IF engine = "LiveTrader" THEN Conf(Rat(7, 10), Whole(0))
            ELSE IF forecasts[1].source \in {"NWS", "MSN"}
                 THEN Conf(Rat(17, 25), Whole(0))
                 ELSE Conf(Rat(14, 25), Whole(0))

\* a single OpenMeteo sample at 0.56 beside a single NWS sample at 0.68
C17_Witness ==
    /\ trader_pc = "Estimated"
    /\ engine = "EnhancedLiveTrader"
    /\ forecasts = << Forecast("OpenMeteo", Whole(3)) >>
    /\ estimated[1].confidence = Conf(Rat(14, 25), Whole(0))
    /\ rival = << Forecast("NWS", Whole(1)) >>
    /\ rival_estimated[1].confidence = Conf(Rat(17, 25), Whole(0))

\* no forecast source of the engine has a sample for the run
NoSamples ==
    /\ ~TruthyTemp(source_temps.OpenMeteo)
    /\ ~TruthyTemp(source_temps.NWS)
    /\ engine = "EnhancedLiveTrader" => ~TruthyTemp(source_temps.MSN)

\* the result of both estimators on the run's forecasts is confidence 0.0
\* and no value
EmptyEstimate ==
    /\ get_weighted_consensus(forecasts).consensus = None
    /\ get_weighted_consensus(forecasts).confidence = Conf(Whole(0), Whole(0))
    /\ get_consensus_forecast(forecasts).consensus = None
    /\ get_consensus_forecast(forecasts).confidence = Conf(Whole(0), Whole(0))

\* C18 as stated: the estimators return confidence 0.0 and no value for an
\* empty dict, and a run with no forecast samples ends with no decision
\* and has neither fetched nor matched the markets.
C18_NoSamplesNoMarkets ==
    /\ forecasts = << >> => EmptyEstimate
    /\ (trader_pc = "Done" /\ NoSamples)
          => /\ decision = None
             /\ market_queries = 0
             /\ estimate = None

\* C18, amended: the estimators return confidence 0.0 and no value for an
\* empty dict.  A run with no forecast samples that did not take the
\* cooling-trend strategy ends with no decision and has neither fetched
\* nor matched the markets; a run that took the cooling-trend strategy has
\* fetched the markets once, before any forecast, and its decision, if
\* any, is the cooling-trend decision.
C18_EmptyForecastsEndRun ==
    /\ forecasts = << >> => EmptyEstimate
    /\ (trader_pc = "Done" /\ NoSamples)
          => /\ estimated = None
             /\ cooling_opportunity = None
                  => /\ forecast_consulted
                     /\ decision = None
                     /\ market_queries = 0
                     /\ estimate = None
                     /\ best_market = None
             /\ cooling_opportunity # None
                  => /\ market_queries = 1
                     /\ decision # None
                          => decision[1].source = "CoolingTrend(Observed)"

\* a run of EnhancedLiveTrader whose three sources gave nothing ended in
\* the forecast strategy, without a decision and without a market query
C18_Witness ==
    /\ trader_pc = "Done"
    /\ engine = "EnhancedLiveTrader"
    /\ todays_markets # << >>
    /\ NoSamples
    /\ forecast_consulted
    /\ forecasts = << >>
    /\ decision = None
    /\ market_queries = 0

TimeoutFetch == 10

\* timeout=15 of the MSN request, in seconds
TimeoutMSN == 15

\* the timeout argument of the fetcher's requests.get calls; None where the
\* call passes no timeout, which for requests means waiting without limit
Timeout(f) ==
    CASE f = "get_todays_markets" -> None
      [] f = "get_msn_forecast" -> Some(TimeoutMSN)
      [] OTHER -> Some(TimeoutFetch)

\* the number of requests.get calls the fetcher makes when each succeeds
Requests(f) ==
    CASE f \in {"get_nws_current_observation", "get_observed_temperature"}
           -> 3
      [] f = "get_nws_forecast" -> 2
      [] OTHER -> 1

\* the fetchers get_today_forecast calls
ForecastFetchers ==
    {"get_openmeteo_forecast", "get_nws_forecast", "get_msn_forecast"}

Operations ==
    {"collect_observation", "LiveTrader.make_trading_decision",
     "EnhancedLiveTrader.make_trading_decision"}

\* after get_today_forecast: the markets are listed when a forecast came
AfterForecasts(gf) ==
    IF gf THEN {"get_todays_markets"} ELSE {"returned"}

\* the fetchers the operation may call after fetcher f returned with a
\* value (ok) or with None; where the choice depends on the data received,
\* every choice the data can make
Continuations(op, f, ok, gf, fstrat) ==
    CASE f = "get_nws_current_observation" -> {"get_openmeteo_current"}
      [] f = "get_openmeteo_current" -> {"returned"}
      [] f = "get_hourly_forecast" ->
           IF ok THEN {"get_observed_temperature", "get_openmeteo_forecast"}
                 ELSE {"get_openmeteo_forecast"}
      [] f = "get_observed_temperature" ->
           IF ok THEN {"get_todays_markets"} ELSE {"get_openmeteo_forecast"}
      [] f = "get_openmeteo_forecast" -> {"get_nws_forecast"}
      [] f = "get_nws_forecast" ->
           IF op = "EnhancedLiveTrader.make_trading_decision"
           THEN {"get_msn_forecast"} ELSE AfterForecasts(gf)
      [] f = "get_msn_forecast" -> AfterForecasts(gf)
      [] f = "get_todays_markets" ->
           IF ok /\ ~fstrat THEN {"returned", "get_openmeteo_forecast"}
                            ELSE {"returned"}
      [] OTHER -> {"returned"}

\* the operation calls fetcher f
CallFetcher(f) ==
    /\ fetcher' = f
    /\ requests_left' = IF f = "returned" THEN 0 ELSE Requests(f)
    /\ in_flight' = None

\* the fetcher in progress returns, and the operation goes on
FetcherReturns(ok) ==
    /\ got_forecast' = (got_forecast \/ (ok /\ fetcher \in ForecastFetchers))
    /\ \E f \in Continuations(operation, fetcher, ok, got_forecast',
                              forecast_strategy) :
         /\ CallFetcher(f)
         /\ forecast_strategy' =
              (forecast_strategy \/ f = "get_openmeteo_forecast")

\* a poll tick or a decision-engine invocation starts
StartOperation ==
    /\ operation = "none"
    /\ \E op \in Operations, cooling \in BOOLEAN :
         /\ operation' = op
         /\ LET first ==
                  IF op = "collect_observation"
                  THEN "get_nws_current_observation"
                  ELSE IF op = "EnhancedLiveTrader.make_trading_decision"
                          /\ cooling
                       THEN "get_hourly_forecast"
                       ELSE "get_openmeteo_forecast"
            IN /\ CallFetcher(first)
               /\ forecast_strategy' = (first = "get_openmeteo_forecast")
    /\ UNCHANGED << got_forecast, waited >>
    /\ UNCHANGED << monitorVars, fetcherVars >>
    /\ UNCHANGED << trader_pc, todays_markets, estimate, best_market >>
    /\ UNCHANGED << envVars, runVars, rivalVars, tick,
                    twinVars, betVars >>

\* requests.get is called; the endpoint will answer or stay silent
IssueRequest ==
    /\ fetcher \notin {"none", "returned"}
    /\ in_flight = None
    /\ requests_left > 0
    /\ \E silent \in BOOLEAN :
         in_flight' = Some([timeout |-> Timeout(fetcher), silent |-> silent])
    /\ UNCHANGED << operation, fetcher, requests_left, got_forecast,
                    forecast_strategy, waited >>
    /\ UNCHANGED << monitorVars, fetcherVars >>
    /\ UNCHANGED << trader_pc, todays_markets, estimate, best_market >>
    /\ UNCHANGED << envVars, runVars, rivalVars, tick,
                    twinVars, betVars >>

\* the endpoint answers: with a response the fetcher can use (the fetcher
\* makes its next request, or returns a value after its last one) or with
\* one it cannot use (the fetcher returns None, or an empty list)
Respond ==
    /\ in_flight # None
    /\ ~in_flight[1].silent
    /\ \E ok \in BOOLEAN :
         IF ok /\ requests_left > 1
         THEN /\ requests_left' = requests_left - 1
              /\ in_flight' = None
              /\ UNCHANGED << fetcher, got_forecast, forecast_strategy >>
         ELSE FetcherReturns(ok)
    /\ UNCHANGED << operation, waited >>
    /\ UNCHANGED << monitorVars, fetcherVars >>
    /\ UNCHANGED << trader_pc, todays_markets, estimate, best_market >>
    /\ UNCHANGED << envVars, runVars, rivalVars, tick,
                    twinVars, betVars >>

\* the endpoint stays silent until the call's timeout expires: requests
\* raises, the fetcher's except clause returns None
TimeOut ==
    /\ in_flight # None
    /\ in_flight[1].silent
    /\ in_flight[1].timeout # None
    /\ waited' = waited + in_flight[1].timeout[1]
    /\ FetcherReturns(FALSE)
    /\ UNCHANGED operation
    /\ UNCHANGED << monitorVars, fetcherVars >>
    /\ UNCHANGED << trader_pc, todays_markets, estimate, best_market >>
    /\ UNCHANGED << envVars, runVars, rivalVars, tick,
                    twinVars, betVars >>

InitFetch ==
    /\ MonitorInit
    /\ predicted_max_temp = MaxTemp + 1
    /\ FetcherIdle
    /\ TraderIdle

NextFetch == StartOperation \/ IssueRequest \/ Respond \/ TimeOut

\* a request that can be answered or can time out is not waited on for
\* ever
SpecFetch == InitFetch /\ [][NextFetch]_vars /\ WF_vars(NextFetch)

\* C20: no operation blocks indefinitely: every request of a poll tick and
\* of a decision-engine invocation carries a timeout, so the operation
\* returns even when an endpoint never responds.
C20_EveryOperationReturns ==
    (operation # "none") ~> (fetcher = "returned")


\* ---------------------------------------------------------------------
\* Sessions on one monitor
\* ---------------------------------------------------------------------

\* the list the observations field of a returned session refers to:
\* "observations=self.observations" stores the monitor's list itself, not
\* a copy, so the field reads whatever the monitor's list holds
SessionObservations == observations

\* C21: once a session has been finalized and returned, none of its fields
\* changes, its observation sequence included, whatever polls or sessions
\* are run on the monitor afterwards.
C21_FinalizedSessionFrozen ==
    [][session # None => SessionObservations' = SessionObservations]_vars

\* the call has entered the poll loop and has not polled yet
SessionStarted == pc = "Monitoring" /\ check_count = 0

\* C22: every monitoring session starts with an empty observation window,
\* for any sequence of sessions run on a monitor.
C22_SessionStartsEmpty ==
    SessionStarted => observations = << >>


\* ---------------------------------------------------------------------
\* The poll loop
\* ---------------------------------------------------------------------

\* a step of the while loop that polled
Polled == pc = "Monitoring" /\ check_count' = check_count + 1

\* the detector, evaluated on the window the poll left, reports a peak
ReportsDecline(obs) ==
    Len(obs) >= MinSamples /\ detect_max_temperature(obs).max # None

\* C23: the monitor leaves Monitoring at the first poll whose detector
\* evaluation reports a declining trend; between that poll and the
\* finalized session nothing is fetched or appended and no poll is counted,
\* and the session's peak is the one that evaluation reported.
C23_LeavesAtFirstDetection ==
    /\ [](pc = "Monitoring" => ~DetectionReported)
    /\ [](pc = "Detected" =>
            /\ ReportsDecline(observations)
            /\ detected_max = detect_max_temperature(observations).max
            /\ detected_time = detect_max_temperature(observations).time)
    /\ [][Polled => (pc' = "Detected" <=> ReportsDecline(observations'))]_vars
    /\ [][pc = "Detected" =>
            /\ pc' = "Closed"
            /\ observations' = observations
            /\ check_count' = check_count
            /\ session' # None
            /\ session'[1].observations = observations
            /\ session'[1].detected_max_temp = detected_max[1]
            /\ session'[1].detected_max_time = detected_time[1]
            /\ session'[1].confidence = ConfDetected]_vars

\* a session closed after a detection made on five samples, the secondary
\* source holding the highest of them
C23_Witness ==
    /\ pc = "Closed"
    /\ loop_exit = "break_detected"
    /\ session # None
    /\ Len(NwsSamples) = MinSamples
    /\ \E i \in 1 .. Len(observations) :
         observations[i].temperature > session[1].detected_max_temp


\* C24: a call of monitor_buffer_period made before the start of the window
\* fetches nothing and appends nothing: it returns with the observation
\* window as it found it, no poll counted and no session built.
C24_NoPollBeforeWindow ==
    /\ [](pc = "WaitingForWindow" =>
            /\ check_count = 0
            /\ detected_max = None
            /\ loop_exit = "none")
    /\ [][pc' = "WaitingForWindow" =>
            /\ observations' = observations
            /\ session' = session]_vars

\* a call before the window returned on a monitor that holds samples
C24_Witness ==
    /\ pc = "WaitingForWindow"
    /\ session # None
    /\ observations # << >>


\* ---------------------------------------------------------------------
\* One poll tick
\* ---------------------------------------------------------------------

\* the sample of a fetch that returned a temperature, none for a failed one
Sample(ts, src, opt) ==
    IF opt = None THEN << >>
    ELSE << TemperatureObservation(ts, src, opt[1]) >>

\* C25: within one poll tick the sources fail independently: when the fetch
\* of one source fails, the other source's sample, if its fetch succeeded,
\* is appended in the same tick, and the failure ends neither the tick nor
\* the session.
C25_SourcesFailIndependently ==
    [][Polled =>
         LET t == tick'[1]
             ts == Timestamp(observations)
         IN  /\ (t.nws = None /\ t.openmeteo # None) =>
                   observations' = observations
                                     \o Sample(ts, "OpenMeteo", t.openmeteo)
             /\ (t.openmeteo = None /\ t.nws # None) =>
                   observations' = observations \o Sample(ts, "NWS", t.nws)
             /\ (t.nws = None \/ t.openmeteo = None) =>
                   \/ pc' \in {"Monitoring", "Detected"}
                   \/ BudgetSpent(check_count')]_vars

\* C26: in every poll tick each sample a fetch returned is appended to the
\* observation window exactly once, at the end, for every temperature the
\* fetch can return, 0 degrees included, and the samples already in the
\* window stay as they are.
C26_EverySampleAppended ==
    [][Polled =>
         LET t == tick'[1]
             ts == Timestamp(observations)
         IN  observations' = observations \o Sample(ts, "NWS", t.nws)
                                          \o Sample(ts, "OpenMeteo",
                                                    t.openmeteo)]_vars


\* ---------------------------------------------------------------------
\* Two sessions with the same primary-source samples
\* ---------------------------------------------------------------------

\* the two sessions end at the same poll with the same detection outcome,
\* detected_max_temp and confidence
SameResult(a, b) ==
    /\ a.polls = b.polls
    /\ a.detected = b.detected
    /\ a.detected_max_temp = b.detected_max_temp
    /\ a.confidence = b.confidence

\* every secondary-source sample of the window comes after three
\* primary-source samples and is not higher than all of them
PrimaryLeads(obs) ==
    \A k \in 1 .. Len(obs) :
        ~IsNWS(obs[k]) =>
            /\ Len(SelectSeq(SubSeq(obs, 1, k - 1), IsNWS)) >= MinSamples
            /\ \E j \in 1 .. k - 1 :
                 IsNWS(obs[j]) /\ obs[j].temperature >= obs[k].temperature

\* C27 as the spec states it: two sessions with the same forecast and the
\* same primary-source samples per poll, differing only in their
\* secondary-source samples, end at the same poll with the same detection
\* outcome, detected_max_temp and confidence; each of them then ends as
\* the session without secondary-source samples does.
C27_SecondaryNeverInfluences ==
    replayed # << >> => SameResult(replayed[1], replayed[2])

\* C27, amended: the two sessions end alike when, in both, every
\* secondary-source sample comes after three primary-source samples and is
\* not higher than all of them: each then ends as the session without
\* secondary-source samples does.  Otherwise the secondary-source samples
\* count towards the three-sample gate, are examined by the detector and
\* can be the fallback maximum.
C27_SecondaryAfterPrimary ==
    (/\ replayed # << >>
     /\ PrimaryLeads(replayed[1].observations)
     /\ PrimaryLeads(replayed[2].observations))
        => SameResult(replayed[1], replayed[2])

\* two sessions without a detection: one holds two secondary-source samples
\* after its three primary-source samples, the other holds none
C27_Witness ==
    /\ replayed # << >>
    /\ PrimaryLeads(replayed[1].observations)
    /\ PrimaryLeads(replayed[2].observations)
    /\ Len(replayed[1].observations) = MinSamples + 2
    /\ Len(replayed[2].observations) = MinSamples
    /\ ~replayed[1].detected


\* ---------------------------------------------------------------------
\* Malformed descriptors and the two matchers
\* ---------------------------------------------------------------------

\* the positions of the list whose subtitle has one of the three forms
WellFormedAt(texts) ==
    {k \in 1 .. Len(texts) : texts[k] \in RecognizedTexts}

\* the n-th smallest element of a set of positions
NthOf(positions, n) ==
    CHOOSE k \in positions : Cardinality({j \in positions : j <= k}) = n

\* the position in the whole list of the market found at position r of the
\* list without its malformed markets
InWholeList(texts, r) ==
    IF r = None THEN None ELSE Some(NthOf(WellFormedAt(texts), r[1]))

HasForm(text) == text \in RecognizedTexts

MarketHasForm(market) == HasForm(market.subtitle)

Subtitle(market) == market.subtitle

\* C28: a market whose descriptor is malformed is skipped and the later
\* markets are still examined: each matcher returns what it returns on the
\* list with the malformed markets removed.
C28_MalformedSkipped ==
    /\ fetcher_pc = "Matched" =>
          found = InWholeList(
                    [k \in 1 .. Len(markets) |-> Subtitle(markets[k])],
                    find_market_for_forecast(SelectSeq(markets, MarketHasForm),
                                             forecast_temp[1]))
    /\ trader_pc = "Matched" =>
          best_market = InWholeList(
                          todays_markets,
                          find_best_market(SelectSeq(todays_markets, HasForm),
                                           estimate[1]))

\* C30: the two matchers agree: on the same list and the same temperature
\* find_best_market selects the market at the position
\* find_market_for_forecast selects on the parsed list, and one returns no
\* market exactly when the other does.
C30_MatchersAgree ==
    (/\ trader_pc = "Matched"
     /\ fetcher_pc = "Matched"
     /\ [k \in 1 .. Len(markets) |-> Subtitle(markets[k])] = todays_markets
     /\ estimate[1].num = forecast_temp[1] * estimate[1].den)
        => best_market = found


\* ---------------------------------------------------------------------
\* The recommended bet
\* ---------------------------------------------------------------------

\* C29: the recommended bet bucket "L deg to H deg" is one degree wide and
\* contains the detected maximum, L <= detected_max_temp < H, for negative
\* and fractional temperatures too.
C29_BucketContainsMax ==
    pc = "BetDetermined" =>
        \E L \in -MaxDetected - 1 .. MaxDetected + 1 :
            /\ bet_decision = Some(BucketText(L, L + 1))
            /\ L * detected_max[1].den <= detected_max[1].num
            /\ detected_max[1].num < (L + 1) * detected_max[1].den

====
